---- MODULE Spec2Model ----
(***************************************************************************)
(* Model of the WhatsApp webhook service (src/main.py): the chat-name      *)
(* cache with its directory fallback, the webhook enrichment job and the   *)
(* in-memory OTP store.                                                    *)
(*                                                                         *)
(* Python strings are sequences of one-character strings, so that          *)
(* str.isdigit, concatenation, re.findall and str.replace are computed     *)
(* and not assumed.  None and a missing dict key are the one-element       *)
(* sequences <<"None">> and <<"Missing">>, which no character sequence     *)
(* equals.                                                                 *)
(***************************************************************************)
EXTENDS Integers, Sequences, FiniteSets, TLC

VARIABLES
    cache,                \* the CACHE_INDEX documents: chat_id -> stored chat_name
    PERISKOPE_API_KEY,    \* TRUE when the key is configured (truthy)
    PERISKOPE_ORG_PHONE,  \* TRUE when the organization phone is configured
    call,                 \* what the last cache operation was given and returned
    otp_store,            \* phone -> [otp, expires]
    now,                  \* time.time()
    users,                \* the phones that have a document in USERS_INDEX
    reply,                \* the response of the last OTP request
    accepted,             \* per phone: codes accepted since the last issue
    msg_index,            \* the INDEX_NAME documents written under a given id
    assigned,             \* how many documents the store has keyed itself
    job,                  \* the last run of process_webhook_message
    tasks,                \* the background tasks added and not yet run
    ack,                  \* the last request to the webhook and its response
    summary,              \* what the last bulk_fetch_and_cache_groups returned
    race                  \* the writers of the cache that run step by step

config == <<PERISKOPE_API_KEY, PERISKOPE_ORG_PHONE>>
cacheVars == <<cache, call>>
otpVars == <<otp_store, now, users, reply, accepted>>
indexVars == <<msg_index, assigned, job>>
ingestVars == <<tasks, ack>>
syncVars == <<summary>>
raceVars == <<race>>
vars == <<cache, PERISKOPE_API_KEY, PERISKOPE_ORG_PHONE, call,
          otp_store, now, users, reply, accepted, msg_index, assigned, job,
          tasks, ack, summary, race>>

-----------------------------------------------------------------------------
(* Values *)

None == <<"None">>
Missing == <<"Missing">>
Digits == {"0", "1", "2", "3", "4", "5", "6", "7", "8", "9"}

\* The one element of a singleton: Only({f(x) : x \in {e}}) is f(e), with e
\* evaluated once.
Only(S) == CHOOSE v \in S : TRUE

\* Python truthiness of a str-or-None value.
Truthy(v) == v # None /\ v # Missing /\ v # <<>>

\* str.isdigit(): non-empty and every character a digit.
isdigit(s) == Len(s) > 0 /\ \A i \in 1..Len(s) : s[i] \in Digits

\* dict operations
Get(d, k, default) == IF k \in DOMAIN d THEN d[k] ELSE default
Put(d, k, v) == [x \in DOMAIN d \cup {k} |-> IF x = k THEN v ELSE d[x]]
Pop(d, k) == [x \in DOMAIN d \ {k} |-> d[x]]

ContactSuffix == <<"@", "c", ".", "u", "s">>
GroupSuffix == <<"@", "g", ".", "u", "s">>

Phone == <<"7">>
Contact == Phone \o ContactSuffix
Group == <<"g">> \o GroupSuffix
ChatIds == {Phone, Contact, Group}

TeamName == <<"T">>
MemberName == <<"M">>
ManualName == <<"X">>

HTTP_OK == 200
MaxMembers == 2

OtherPhone == <<"8">>
CountryCode == <<"9", "1">>
LocalDigits == 10
Phones == {Phone, OtherPhone}
Codes == {<<"0", "0", "0", "0", "0", "0">>, <<"1", "2", "3", "4", "5", "6">>}
OTP_TTL == 300
TickStep == 300
MaxTime == 600
MaxAssigned == 2
MaxTasks == 1
MaxChats == 2

-----------------------------------------------------------------------------
(* The directory's answers to GET chat/{id} *)

ContactNames == {None, MemberName}
MemberInfos ==
    {[shape |-> "str", contact_name |-> Missing]}
        \cup {[shape |-> "dict", contact_name |-> n] : n \in ContactNames}
MemberIds == {Contact, Group}

\* The items of a members object, in the order of the JSON text: distinct keys.
RECURSIVE MemberItems(_)
MemberItems(n) ==
    IF n = 0 THEN {<<>>}
    ELSE LET shorter == MemberItems(n - 1)
         IN shorter \cup
            {Append(s, <<k, m>>) :
                s \in {t \in shorter : Len(t) = n - 1},
                k \in MemberIds, m \in MemberInfos}

DistinctKeys(items) ==
    \A i, j \in 1..Len(items) : i # j => items[i][1] # items[j][1]

MembersValues ==
    {[shape |-> "missing", items |-> <<>>],
     [shape |-> "null", items |-> <<>>],
     [shape |-> "list", items |-> <<>>]}
        \cup {[shape |-> "dict", items |-> s] :
                s \in {t \in MemberItems(MaxMembers) : DistinctKeys(t)}}

ChatNames == {Missing, None, <<>>, TeamName}

NoBody == [shape |-> "badjson", chat_name |-> Missing,
           members |-> [shape |-> "missing", items |-> <<>>]]

Bodies ==
    {NoBody, [NoBody EXCEPT !.shape = "list"]}
        \cup {[shape |-> "dict", chat_name |-> n, members |-> m] :
                n \in ChatNames, m \in MembersValues}

\* requests.get raises (timeout, connection error), or answers with a status.
Responses ==
    {[kind |-> "raise", status |-> 0, body |-> NoBody]}
        \cup {[kind |-> "http", status |-> s, body |-> NoBody] : s \in {404, 500}}
        \cup {[kind |-> "http", status |-> HTTP_OK, body |-> b] : b \in Bodies}

-----------------------------------------------------------------------------
(* The cache index.  The index is taken to answer every request: the except  *)
(* branches of get_chat_name_from_cache and save_chat_name_to_cache, which    *)
(* turn a failed request into a miss or a lost write, are not modelled.       *)

EmptyMap == [k \in {} |-> None]

get_chat_name_from_cache(c, chat_id) ==
    IF chat_id \in DOMAIN c THEN c[chat_id] ELSE None

\* save_chat_name_to_cache deleting the entry when the name is empty.
save_chat_name_to_cache_dropping_unnamed(c, chat_id, chat_name) ==
    IF Truthy(chat_name)
    THEN [k \in DOMAIN c \cup {chat_id} |->
             IF k = chat_id THEN chat_name ELSE c[k]]
    ELSE [k \in DOMAIN c \ {chat_id} |-> c[k]]

save_chat_name_to_cache(c, chat_id, chat_name) ==
    [k \in DOMAIN c \cup {chat_id} |-> IF k = chat_id THEN chat_name ELSE c[k]]

\* The member loop of get_chat_name: member_info.get raises on a member that
\* is not an object, which ends the loop with the writes made so far.
RECURSIVE cache_members(_, _)
cache_members(c, items) ==
    IF items = <<>> THEN [cache |-> c, raised |-> FALSE]
    ELSE LET contact_id == items[1][1]
             member_info == items[1][2]
         IN IF member_info.shape # "dict" THEN [cache |-> c, raised |-> TRUE]
            ELSE LET contact_name ==
                         IF member_info.contact_name = Missing THEN None
                         ELSE member_info.contact_name
                     existing == get_chat_name_from_cache(c, contact_id)
                     written ==
                         IF Truthy(contact_name) /\ Truthy(contact_id)
                                /\ ~Truthy(existing)
                         THEN save_chat_name_to_cache(c, contact_id, contact_name)
                         ELSE c
                 IN cache_members(written, Tail(items))

\* fetch_chat_name caching the fallback: a failed request stores id -> id.
fetch_chat_name_caching_fallback(c, chat_id, resp) ==
    IF resp.kind = "raise" \/ resp.status # HTTP_OK
    THEN [ret |-> chat_id, requests |-> 0,
          cache |-> save_chat_name_to_cache(c, chat_id, chat_id)]
    ELSE [ret |-> chat_id, cache |-> c, requests |-> 0]

\* The try block of get_chat_name, once the request has been answered.
fetch_chat_name(c, chat_id, resp) ==
    LET fallback == [ret |-> chat_id, cache |-> c, requests |-> 0]
    IN IF resp.kind = "raise" THEN fallback
       ELSE IF resp.status # HTTP_OK THEN fallback
       ELSE IF resp.body.shape # "dict" THEN fallback
       ELSE LET data == resp.body
                chat_name ==
                    IF data.chat_name = Missing THEN chat_id ELSE data.chat_name
                saved == save_chat_name_to_cache(c, chat_id, chat_name)
                members == data.members
            IN IF members.shape = "list"
               THEN [ret |-> chat_id, cache |-> saved, requests |-> 0]
               ELSE IF members.shape = "dict" /\ members.items # <<>>
               THEN Only({[ret |-> IF r.raised THEN chat_id ELSE chat_name,
                           cache |-> r.cache, requests |-> 0] :
                            r \in {cache_members(saved, members.items)}})
               ELSE [ret |-> chat_name, cache |-> saved, requests |-> 0]

\* get_chat_name without the credentials check.
get_chat_name_unchecked(c, chat_id, resp) ==
    LET cached_name == get_chat_name_from_cache(c, chat_id)
        cached_name_suffix ==
            get_chat_name_from_cache(c, chat_id \o ContactSuffix)
    IN IF Truthy(cached_name)
       THEN [ret |-> cached_name, cache |-> c, requests |-> 0]
       ELSE IF isdigit(chat_id) /\ Truthy(cached_name_suffix)
       THEN [ret |-> cached_name_suffix, cache |-> c, requests |-> 0]
       ELSE [fetch_chat_name(c, chat_id, resp) EXCEPT !.requests = 1]

get_chat_name(c, chat_id, resp) ==
    LET cached_name == get_chat_name_from_cache(c, chat_id)
        cached_name_suffix ==
            get_chat_name_from_cache(c, chat_id \o ContactSuffix)
    IN IF Truthy(cached_name)
       THEN [ret |-> cached_name, cache |-> c, requests |-> 0]
       ELSE IF isdigit(chat_id) /\ Truthy(cached_name_suffix)
       THEN [ret |-> cached_name_suffix, cache |-> c, requests |-> 0]
       ELSE IF ~PERISKOPE_API_KEY \/ ~PERISKOPE_ORG_PHONE
       THEN [ret |-> chat_id, cache |-> c, requests |-> 0]
       ELSE [fetch_chat_name(c, chat_id, resp) EXCEPT !.requests = 1]

\* manual_set_group_name.py: the prompt passes on only a non-empty id and name.
set_group_name(c, chat_id, chat_name) ==
    IF Truthy(chat_id) /\ Truthy(chat_name)
    THEN save_chat_name_to_cache(c, chat_id, chat_name)
    ELSE c

-----------------------------------------------------------------------------
(* Operations on the cache *)

NoCall ==
    [op |-> "none", seq |-> 0, chat_id |-> <<>>, ret |-> <<>>, requests |-> 0,
     failed |-> FALSE, dir_name |-> Missing, dir_members |-> 0]

\* What a sender did: the requests it made to the provider, the destination
\* it gave and the keys of the dict it returned.
NoSent == [requests |-> 0, to |-> None, result |-> {}]

\* The APP_CONFIG entry of an application name: known tells that there is
\* one, token and phone_id that its values are set.
NoTenant == [known |-> FALSE, token |-> FALSE, phone_id |-> FALSE]

\* otp is the code a request issued and replaced the code of the session it
\* overwrote; matched tells that a verify_otp carried the stored code; config
\* is the entry of the application a send was asked for and sent what the
\* sender did; body_otp is the code that the body of the response carries,
\* None when it carries none.
NoReply ==
    [op |-> "none", seq |-> 0, phone |-> None, otp |-> None,
     replaced |-> None, status |-> 0, detail |-> "", matched |-> FALSE,
     config |-> NoTenant, sent |-> NoSent, body_otp |-> None]

\* job.payload is the input of the last run since the cache was last written
\* by another operation; again tells that the run before it had the same input
\* and made no directory request.
NoJob ==
    [seq |-> 0, payload |-> [event |-> "none", data |-> EmptyMap],
     requests |-> 0, again |-> FALSE, key |-> None, doc |-> EmptyMap,
     calls |-> <<>>, raised |-> FALSE, wrote |-> FALSE, dropped |-> {}]

\* calls lists the get_chat_name calls of the run, each with what it was
\* given and what it returned; raised tells that a step raised outside the
\* try blocks of the steps, wrote that es.index was called; dropped is the
\* set of fields that the document of the run's id had before the run and
\* has no longer.
NoAck ==
    [seq |-> 0, status |-> 0, body |-> "", scheduled |-> FALSE,
     request |-> [json |-> "none", event |-> "", event_type |-> "",
                  data |-> "missing"]]

\* uncached_before counts the chats of the directory's answer whose chat_id
\* had no cache entry when the pass began; chats is that answer, and again
\* tells that the operation before the pass was a pass over the same answer;
\* requests counts the requests the operation made to the directory.
NoSummary ==
    [op |-> "none", seq |-> 0, status |-> "none", total_chats |-> 0,
     newly_cached_chats |-> 0, newly_cached_members |-> 0,
     already_cached |-> 0, uncached_before |-> 0, chats |-> <<>>,
     again |-> FALSE, requests |-> 0]

\* A writer is a call of get_chat_name or a pass of the bulk sync taken one
\* request to the cache index at a time: writes lists the writes it has yet
\* to make, existing is what its last read of the index found.  A write of
\* kind "chat" is made over whatever entry is there, one of kind "new_chat"
\* (the chat name of a bulk pass) or "member" only after a read that finds no
\* named entry.
Writers == {1, 2}

Idle ==
    [op |-> "idle", chat_id |-> <<>>, pc |-> "done", writes |-> <<>>,
     existing |-> Missing]

\* start is the cache the writers began with and directory what the
\* directory holds while they run.
NoRace ==
    [start |-> EmptyMap,
     directory |-> [contact_name |-> None, first |-> Group],
     writers |-> [w \in Writers |-> Idle]]

\* What the directory answered, as far as the caller can tell it apart.
Failed(resp) == resp.kind = "raise" \/ resp.status # HTTP_OK
Answered(resp) == ~Failed(resp) /\ resp.body.shape = "dict"

Init ==
    /\ cache = EmptyMap
    /\ PERISKOPE_API_KEY \in BOOLEAN
    /\ PERISKOPE_ORG_PHONE \in BOOLEAN
    /\ call = NoCall
    /\ otp_store = EmptyMap
    /\ now = 0
    /\ users = {}
    /\ reply = NoReply
    /\ accepted = [p \in Phones |-> 0]
    /\ msg_index = EmptyMap
    /\ assigned = 0
    /\ job = NoJob
    /\ tasks = <<>>
    /\ ack = NoAck
    /\ summary = NoSummary
    /\ race = NoRace

GetChatName ==
    \E chat_id \in ChatIds, resp \in Responses :
        \E r \in {get_chat_name(cache, chat_id, resp)} :
           LET made == r.requests = 1
           IN
           /\ cache' = r.cache
           /\ call' = [op |-> "get_chat_name", seq |-> 1 - call.seq,
                       chat_id |-> chat_id, ret |-> r.ret,
                       requests |-> r.requests,
                       failed |-> made /\ Failed(resp),
                       dir_name |-> IF made /\ Answered(resp)
                                    THEN resp.body.chat_name ELSE Missing,
                       dir_members |-> IF made /\ Answered(resp)
                                       THEN Len(resp.body.members.items) ELSE 0]
           /\ UNCHANGED <<config, raceVars, otpVars, indexVars, ingestVars,
                          syncVars>>

SetGroupName ==
    \E chat_id \in ChatIds \cup {<<>>}, chat_name \in {ManualName, <<>>} :
        /\ cache' = set_group_name(cache, chat_id, chat_name)
        /\ call' = [NoCall EXCEPT !.op = "set_group_name"]
        /\ job' = NoJob
        /\ summary' = NoSummary
        /\ UNCHANGED <<config, raceVars, otpVars, msg_index, assigned, ingestVars>>

NextCache == GetChatName \/ SetGroupName

SpecCache == Init /\ [][NextCache]_vars

-----------------------------------------------------------------------------
(* The bulk pass over the directory's chats *)

\* A chat of the answer: chat_id and chat_name as chat.get gives them, and
\* the members as pairs of contact_id and contact_name.
\* A group with a member, a contact, a chat without a name, a chat without an
\* id, and a chat whose name is its id.
Chats ==
    {[chat_id |-> Group, chat_name |-> TeamName,
      members |-> <<<<Contact, MemberName>>>>],
     [chat_id |-> Contact, chat_name |-> TeamName, members |-> <<>>],
     [chat_id |-> Group, chat_name |-> None, members |-> <<>>],
     [chat_id |-> None, chat_name |-> TeamName, members |-> <<>>],
     [chat_id |-> Contact, chat_name |-> Contact, members |-> <<>>]}

RECURSIVE ChatLists(_)
ChatLists(n) ==
    IF n = 0 THEN {<<>>}
    ELSE ChatLists(n - 1)
             \cup {Append(l, chat) : l \in {k \in ChatLists(n - 1) : Len(k) = n - 1},
                                     chat \in Chats}

\* What GET chats answers: an exception, a status that is not 200, or a list.
ChatsResponses ==
    {[kind |-> "raise", status |-> 0, chats |-> <<>>],
     [kind |-> "http", status |-> 500, chats |-> <<>>]}
    \cup {[kind |-> "http", status |-> HTTP_OK, chats |-> l] :
             l \in ChatLists(MaxChats)}

\* The loop over the members of one chat; acc is the cache and the counters.
RECURSIVE bulk_cache_members(_, _)
bulk_cache_members(acc, members) ==
    IF members = <<>> THEN acc
    ELSE LET contact_id == Head(members)[1]
             contact_name == Head(members)[2]
         IN IF /\ Truthy(contact_name)
               /\ Truthy(contact_id)
               /\ ~Truthy(get_chat_name_from_cache(acc.cache, contact_id))
            THEN bulk_cache_members(
                     [acc EXCEPT !.cache = save_chat_name_to_cache(
                                               @, contact_id, contact_name),
                                 !.cached_members = @ + 1],
                     Tail(members))
            ELSE bulk_cache_members(acc, Tail(members))

\* The loop over the chats.
RECURSIVE bulk_cache_chats(_, _)
bulk_cache_chats(acc, chats) ==
    IF chats = <<>> THEN acc
    ELSE LET chat == Head(chats)
             named ==
                 IF /\ Truthy(chat.chat_id)
                    /\ Truthy(chat.chat_name)
                    /\ ~Truthy(get_chat_name_from_cache(acc.cache, chat.chat_id))
                 THEN [acc EXCEPT !.cache = save_chat_name_to_cache(
                                                @, chat.chat_id, chat.chat_name),
                                  !.cached_chats = @ + 1]
                 ELSE acc
         IN bulk_cache_chats(bulk_cache_members(named, chat.members),
                             Tail(chats))

\* sync_all_group_names.py: the loop over the chats of the answer, which
\* writes a name that is not the id over whatever entry is there.
RECURSIVE sync_chats(_, _)
sync_chats(c, chats) ==
    IF chats = <<>> THEN c
    ELSE LET chat_id == Head(chats).chat_id
             chat_name == Head(chats).chat_name
         IN sync_chats(IF /\ Truthy(chat_id)
                          /\ Truthy(chat_name)
                          /\ chat_name # chat_id
                       THEN save_chat_name_to_cache(c, chat_id, chat_name)
                       ELSE c,
                       Tail(chats))

\* sync_all_groups of sync_all_group_names.py, by the cache it leaves.
sync_all_groups(c, resp) ==
    IF ~PERISKOPE_API_KEY \/ ~PERISKOPE_ORG_PHONE THEN c
    ELSE IF resp.kind = "raise" \/ resp.status # HTTP_OK THEN c
    ELSE sync_chats(c, resp.chats)

\* bulk_fetch_and_cache_groups writing every chat name over the entry that is
\* there before it makes its pass.
bulk_fetch_and_cache_groups_overwriting(c, resp) ==
    LET failed(n) == [cache |-> c, status |-> "error", total_chats |-> 0,
                      newly_cached_chats |-> 0, newly_cached_members |-> 0,
                      already_cached |-> 0, requests |-> n]
    IN IF ~PERISKOPE_API_KEY \/ ~PERISKOPE_ORG_PHONE THEN failed(0)
       ELSE IF resp.kind = "raise" \/ resp.status # HTTP_OK THEN failed(1)
       ELSE Only({[cache |-> acc.cache, status |-> "success", requests |-> 1,
                   total_chats |-> Len(resp.chats),
                   newly_cached_chats |-> acc.cached_chats,
                   newly_cached_members |-> acc.cached_members,
                   already_cached |-> Len(resp.chats) - acc.cached_chats] :
                     acc \in {bulk_cache_chats(
                                  [cache |-> sync_chats(c, resp.chats),
                                   cached_chats |-> 0,
                                   cached_members |-> 0], resp.chats)}})

\* bulk_fetch_and_cache_groups counting as newly cached the chats and the
\* members that a pass over an empty cache would write.
bulk_fetch_and_cache_groups_recounting(c, resp) ==
    LET failed(n) == [cache |-> c, status |-> "error", total_chats |-> 0,
                      newly_cached_chats |-> 0, newly_cached_members |-> 0,
                      already_cached |-> 0, requests |-> n]
    IN IF ~PERISKOPE_API_KEY \/ ~PERISKOPE_ORG_PHONE THEN failed(0)
       ELSE IF resp.kind = "raise" \/ resp.status # HTTP_OK THEN failed(1)
       ELSE Only({[cache |-> acc.cache, status |-> "success", requests |-> 1,
                   total_chats |-> Len(resp.chats),
                   newly_cached_chats |-> acc.cached_chats,
                   newly_cached_members |-> acc.cached_members,
                   already_cached |-> Len(resp.chats) - acc.cached_chats] :
                     acc \in {[bulk_cache_chats(
                                   [cache |-> EmptyMap, cached_chats |-> 0,
                                    cached_members |-> 0], resp.chats)
                               EXCEPT !.cache = bulk_cache_chats(
                                          [cache |-> c, cached_chats |-> 0,
                                           cached_members |-> 0],
                                          resp.chats).cache]}})

\* bulk_fetch_and_cache_groups without the check of the credentials.
bulk_fetch_and_cache_groups_unchecked(c, resp) ==
    LET failed(n) == [cache |-> c, status |-> "error", total_chats |-> 0,
                      newly_cached_chats |-> 0, newly_cached_members |-> 0,
                      already_cached |-> 0, requests |-> n]
    IN IF resp.kind = "raise" \/ resp.status # HTTP_OK THEN failed(1)
       ELSE Only({[cache |-> acc.cache, status |-> "success", requests |-> 1,
                   total_chats |-> Len(resp.chats),
                   newly_cached_chats |-> acc.cached_chats,
                   newly_cached_members |-> acc.cached_members,
                   already_cached |-> Len(resp.chats) - acc.cached_chats] :
                     acc \in {bulk_cache_chats(
                                  [cache |-> c, cached_chats |-> 0,
                                   cached_members |-> 0], resp.chats)}})

\* bulk_fetch_and_cache_groups: the cache it leaves and the dict it returns.
bulk_fetch_and_cache_groups(c, resp) ==
    LET failed(n) == [cache |-> c, status |-> "error", total_chats |-> 0,
                      newly_cached_chats |-> 0, newly_cached_members |-> 0,
                      already_cached |-> 0, requests |-> n]
    IN IF ~PERISKOPE_API_KEY \/ ~PERISKOPE_ORG_PHONE THEN failed(0)
       ELSE IF resp.kind = "raise" \/ resp.status # HTTP_OK THEN failed(1)
       ELSE Only({[cache |-> acc.cache, status |-> "success", requests |-> 1,
                   total_chats |-> Len(resp.chats),
                   newly_cached_chats |-> acc.cached_chats,
                   newly_cached_members |-> acc.cached_members,
                   already_cached |-> Len(resp.chats) - acc.cached_chats] :
                     acc \in {bulk_cache_chats(
                                  [cache |-> c, cached_chats |-> 0,
                                   cached_members |-> 0], resp.chats)}})

BulkFetchAndCacheGroups ==
    \E resp \in ChatsResponses :
        \E r \in {bulk_fetch_and_cache_groups(cache, resp)} :
           /\ cache' = r.cache
           /\ summary' = [op |-> "bulk_fetch_and_cache_groups",
                          seq |-> 1 - summary.seq, status |-> r.status,
                          requests |-> r.requests,
                          chats |-> IF r.requests = 1 THEN resp.chats
                                    ELSE <<>>,
                          again |-> /\ r.status = "success"
                                    /\ summary.op = "bulk_fetch_and_cache_groups"
                                    /\ summary.status = "success"
                                    /\ summary.chats = resp.chats,
                          total_chats |-> r.total_chats,
                          newly_cached_chats |-> r.newly_cached_chats,
                          newly_cached_members |-> r.newly_cached_members,
                          already_cached |-> r.already_cached,
                          uncached_before |->
                              IF r.requests = 0 THEN 0
                              ELSE Cardinality({i \in 1..Len(resp.chats) :
                                  resp.chats[i].chat_id \notin DOMAIN cache})]
           /\ UNCHANGED <<config, raceVars, call, otpVars, indexVars,
                          ingestVars>>

SyncAllGroups ==
    \E resp \in ChatsResponses :
        /\ cache' = sync_all_groups(cache, resp)
        /\ summary' = [NoSummary EXCEPT
                          !.op = "sync_all_groups",
                          !.seq = 1 - summary.seq,
                          !.status =
                              IF /\ PERISKOPE_API_KEY
                                 /\ PERISKOPE_ORG_PHONE
                                 /\ resp.kind = "http"
                                 /\ resp.status = HTTP_OK
                              THEN "success" ELSE "error",
                          !.chats = resp.chats]
        /\ UNCHANGED <<config, raceVars, call, otpVars, indexVars,
                       ingestVars>>

NextBulk == BulkFetchAndCacheGroups \/ SyncAllGroups \/ SetGroupName

SpecBulk == Init /\ [][NextBulk]_vars

-----------------------------------------------------------------------------
(* Writers of the cache that interleave.  A job runs get_chat_name on the    *)
(* event loop while the pass that populate_cache_on_startup starts runs on a *)
(* thread of its own and the scripts run as processes of their own, so the   *)
(* requests of two writers to the cache index can alternate in any order.    *)

\* What the directory holds: the group is named and has the contact as a
\* named member; the contact's own chat has a name or none, and GET chats
\* lists the group or the contact first.
Directories == [contact_name : {None, TeamName}, first : {Group, Contact}]

\* GET chat/{chat_id} answered from the directory.
DirectoryChat(d, chat_id) ==
    [kind |-> "http", status |-> HTTP_OK,
     body |-> IF chat_id = Group
              THEN [shape |-> "dict", chat_name |-> TeamName,
                    members |->
                        [shape |-> "dict",
                         items |-> <<<<Contact,
                                       [shape |-> "dict",
                                        contact_name |-> MemberName]>>>>]]
              ELSE [shape |-> "dict", chat_name |-> d.contact_name,
                    members |-> [shape |-> "missing", items |-> <<>>]]]

\* GET chats answered from the directory.
DirectoryChats(d) ==
    LET group == [chat_id |-> Group, chat_name |-> TeamName,
                  members |-> <<<<Contact, MemberName>>>>]
        contact == [chat_id |-> Contact, chat_name |-> d.contact_name,
                    members |-> <<>>]
    IN [kind |-> "http", status |-> HTTP_OK,
        chats |-> IF d.first = Group THEN <<group, contact>>
                  ELSE <<contact, group>>]

Operations ==
    {[op |-> "get_chat_name", chat_id |-> id] : id \in {Contact, Group}}
        \cup {[op |-> "bulk_fetch_and_cache_groups", chat_id |-> <<>>]}

\* The member loop of get_chat_name as the writes it asks for: one for each
\* member with an id and a name, made only if the read before it finds no
\* named entry.  A member that is not an object ends the loop.
RECURSIVE member_writes(_)
member_writes(items) ==
    IF items = <<>> THEN <<>>
    ELSE LET contact_id == items[1][1]
             member_info == items[1][2]
         IN IF member_info.shape # "dict" THEN <<>>
            ELSE IF Truthy(member_info.contact_name) /\ Truthy(contact_id)
            THEN <<[kind |-> "member", id |-> contact_id,
                    name |-> member_info.contact_name]>>
                     \o member_writes(Tail(items))
            ELSE member_writes(Tail(items))

\* The writes of get_chat_name once the directory has answered: the chat
\* name over whatever entry is there, then the members.
chat_writes(chat_id, resp) ==
    IF resp.kind = "raise" THEN <<>>
    ELSE IF resp.status # HTTP_OK THEN <<>>
    ELSE IF resp.body.shape # "dict" THEN <<>>
    ELSE <<[kind |-> "chat", id |-> chat_id,
            name |-> IF resp.body.chat_name = Missing THEN chat_id
                     ELSE resp.body.chat_name]>>
             \o (IF resp.body.members.shape = "dict"
                 THEN member_writes(resp.body.members.items) ELSE <<>>)

\* The writes a pass of bulk_fetch_and_cache_groups asks for: each of them
\* made only if the read before it finds no named entry.
RECURSIVE bulk_member_writes(_)
bulk_member_writes(members) ==
    IF members = <<>> THEN <<>>
    ELSE (IF Truthy(Head(members)[2]) /\ Truthy(Head(members)[1])
          THEN <<[kind |-> "member", id |-> Head(members)[1],
                  name |-> Head(members)[2]]>>
          ELSE <<>>) \o bulk_member_writes(Tail(members))

RECURSIVE bulk_writes(_)
bulk_writes(chats) ==
    IF chats = <<>> THEN <<>>
    ELSE LET chat == Head(chats)
         IN (IF Truthy(chat.chat_id) /\ Truthy(chat.chat_name)
             THEN <<[kind |-> "new_chat", id |-> chat.chat_id,
                     name |-> chat.chat_name]>>
             ELSE <<>>)
                \o bulk_member_writes(chat.members)
                \o bulk_writes(Tail(chats))

\* A writer with the writes it has left.
Continue(writer, writes) ==
    [writer EXCEPT !.writes = writes, !.existing = Missing,
                   !.pc = IF writes = <<>> THEN "done" ELSE "write"]

\* Two operations start on the cache as it is.
StartRace ==
    /\ \A w \in Writers : race.writers[w].pc = "done"
    /\ \E d \in Directories, ops \in [Writers -> Operations] :
           race' = [start |-> cache, directory |-> d,
                    writers |-> [w \in Writers |->
                                    [op |-> ops[w].op,
                                     chat_id |-> ops[w].chat_id,
                                     pc |-> "start", writes |-> <<>>,
                                     existing |-> Missing]]]
    /\ UNCHANGED <<config, cacheVars, otpVars, indexVars, ingestVars,
                   syncVars>>

\* get_chat_name up to the answer of the directory: the reads of the cache,
\* the check of the credentials and the request.
BeginGetChatName(w) ==
    LET writer == race.writers[w]
        chat_id == writer.chat_id
    IN /\ writer.pc = "start"
       /\ writer.op = "get_chat_name"
       /\ race' = [race EXCEPT !.writers[w] =
              IF Truthy(get_chat_name_from_cache(cache, chat_id))
              THEN Continue(writer, <<>>)
              ELSE IF /\ isdigit(chat_id)
                      /\ Truthy(get_chat_name_from_cache(
                                    cache, chat_id \o ContactSuffix))
              THEN Continue(writer, <<>>)
              ELSE IF ~PERISKOPE_API_KEY \/ ~PERISKOPE_ORG_PHONE
              THEN Continue(writer, <<>>)
              ELSE Continue(writer,
                            chat_writes(chat_id,
                                        DirectoryChat(race.directory,
                                                      chat_id)))]
       /\ UNCHANGED <<config, cacheVars, otpVars, indexVars, ingestVars,
                      syncVars>>

\* bulk_fetch_and_cache_groups up to the answer of the directory.
BeginBulk(w) ==
    LET writer == race.writers[w]
    IN /\ writer.pc = "start"
       /\ writer.op = "bulk_fetch_and_cache_groups"
       /\ race' = [race EXCEPT !.writers[w] =
              IF ~PERISKOPE_API_KEY \/ ~PERISKOPE_ORG_PHONE
              THEN Continue(writer, <<>>)
              ELSE Continue(writer,
                            bulk_writes(DirectoryChats(race.directory).chats))]
       /\ UNCHANGED <<config, cacheVars, otpVars, indexVars, ingestVars,
                      syncVars>>

\* save_chat_name_to_cache of the chat name that the directory gave.
WriteChatName(w) ==
    LET writer == race.writers[w]
    IN /\ writer.pc = "write"
       /\ Head(writer.writes).kind = "chat"
       /\ cache' = save_chat_name_to_cache(cache, Head(writer.writes).id,
                                           Head(writer.writes).name)
       /\ race' = [race EXCEPT !.writers[w] =
                                  Continue(writer, Tail(writer.writes))]
       /\ UNCHANGED <<config, call, otpVars, indexVars, ingestVars,
                      syncVars>>

\* existing = get_chat_name_from_cache(...)
ReadExisting(w) ==
    LET writer == race.writers[w]
    IN /\ writer.pc = "write"
       /\ Head(writer.writes).kind \in {"new_chat", "member"}
       /\ writer.existing = Missing
       /\ race' = [race EXCEPT !.writers[w].existing =
                       get_chat_name_from_cache(cache, Head(writer.writes).id)]
       /\ UNCHANGED <<config, cacheVars, otpVars, indexVars, ingestVars,
                      syncVars>>

\* if not existing: save_chat_name_to_cache(...)
WriteIfAbsent(w) ==
    LET writer == race.writers[w]
    IN /\ writer.pc = "write"
       /\ Head(writer.writes).kind \in {"new_chat", "member"}
       /\ writer.existing # Missing
       /\ cache' = IF ~Truthy(writer.existing)
                   THEN save_chat_name_to_cache(cache, Head(writer.writes).id,
                                                Head(writer.writes).name)
                   ELSE cache
       /\ race' = [race EXCEPT !.writers[w] =
                                  Continue(writer, Tail(writer.writes))]
       /\ UNCHANGED <<config, call, otpVars, indexVars, ingestVars,
                      syncVars>>

WriterStep ==
    \E w \in Writers :
        \/ BeginGetChatName(w)
        \/ BeginBulk(w)
        \/ WriteChatName(w)
        \/ ReadExisting(w)
        \/ WriteIfAbsent(w)

NextRace == StartRace \/ WriterStep

SpecRace == Init /\ [][NextRace]_vars

NextManualRace == NextRace \/ SetGroupName

SpecManualRace == Init /\ [][NextManualRace]_vars

-----------------------------------------------------------------------------
(* The OTP store *)

\* send_periskope_message retrying once a POST that failed.
send_periskope_message_retrying(phone, post_ok) ==
    IF ~PERISKOPE_API_KEY \/ ~PERISKOPE_ORG_PHONE
    THEN [ok |-> FALSE, requests |-> 0, to |-> None]
    ELSE [ok |-> post_ok, requests |-> IF post_ok THEN 1 ELSE 2,
          to |-> CountryCode \o phone]

\* send_periskope_message: no request without credentials; one POST otherwise,
\* TRUE only when it neither raises nor answers with an error status.
send_periskope_message(phone, post_ok) ==
    IF ~PERISKOPE_API_KEY \/ ~PERISKOPE_ORG_PHONE
    THEN [ok |-> FALSE, requests |-> 0, to |-> None]
    ELSE [ok |-> post_ok, requests |-> 1, to |-> CountryCode \o phone]

\* login_otp leaving a session that is already there in place.
login_otp_keeping_prior(store, t, phone, otp, post_ok) ==
    IF ~Truthy(phone)
    THEN [otp_store |-> store, status |-> 400,
          detail |-> "Phone number required", sent |-> NoSent,
          dev_otp |-> None]
    ELSE [otp_store |-> IF phone \in DOMAIN store THEN store
                        ELSE Put(store, phone,
                                 [otp |-> otp, expires |-> t + OTP_TTL]),
          status |-> HTTP_OK, detail |-> "OTP sent successfully",
          sent |-> NoSent, dev_otp |-> None]

\* login_otp that stores the session once the message has been sent.
login_otp_storing_when_sent(store, t, phone, otp, post_ok) ==
    IF ~Truthy(phone)
    THEN [otp_store |-> store, status |-> 400,
          detail |-> "Phone number required", sent |-> NoSent,
          dev_otp |-> None]
    ELSE Only({[otp_store |->
                    IF m.ok
                    THEN Put(store, phone,
                             [otp |-> otp, expires |-> t + OTP_TTL])
                    ELSE store,
                status |-> HTTP_OK,
                detail |->
                    IF ~m.ok
                    THEN "OTP failed to send (Check Server Logs for Code)"
                    ELSE "OTP sent successfully",
                sent |-> [requests |-> m.requests, to |-> m.to,
                          result |-> {}],
                dev_otp |-> IF ~m.ok THEN otp ELSE None] :
                  m \in {send_periskope_message(phone, post_ok)}})

\* login_otp: otp is what generate_otp returned.
login_otp(store, t, phone, otp, post_ok) ==
    IF ~Truthy(phone)
    THEN [otp_store |-> store, status |-> 400,
          detail |-> "Phone number required", sent |-> NoSent,
          dev_otp |-> None]
    ELSE LET stored == [k \in DOMAIN store \cup {phone} |->
                           IF k = phone
                           THEN [otp |-> otp, expires |-> t + OTP_TTL]
                           ELSE store[k]]
         IN Only({[otp_store |-> stored, status |-> HTTP_OK,
                   detail |->
                       IF ~m.ok
                       THEN "OTP failed to send (Check Server Logs for Code)"
                       ELSE "OTP sent successfully",
                   sent |-> [requests |-> m.requests, to |-> m.to,
                             result |-> {}],
                   dev_otp |-> IF ~m.ok THEN otp ELSE None] :
                     m \in {send_periskope_message(phone, post_ok)}})

\* The APP_CONFIG entries an application name can have.
TenantConfigs ==
    {NoTenant} \cup [known : {TRUE}, token : BOOLEAN, phone_id : BOOLEAN]

\* not config or not config["token"] or not config["phone_id"]
CredentialsMissing(tenant) ==
    ~tenant.known \/ ~tenant.token \/ ~tenant.phone_id

\* What the provider does with a POST: it answers with a JSON object that
\* has these keys, or the request, or the decoding of its answer, raises.
MetaAnswers == {{"messages"}, {"error"}, {"raise"}}

\* The entry of the application of a request for a code, without a token or
\* complete, and what the provider answers if asked.
MetaOutcomes ==
    {<<[known |-> TRUE, token |-> FALSE, phone_id |-> TRUE], {"raise"}>>}
        \cup {<<[known |-> TRUE, token |-> TRUE, phone_id |-> TRUE], answer>> :
                 answer \in MetaAnswers}

\* re.sub(r'\D', '', mobile): the characters of mobile that are digits.
RECURSIVE sub_non_digits(_)
sub_non_digits(mobile) ==
    IF mobile = <<>> THEN <<>>
    ELSE IF Head(mobile) \in Digits
    THEN <<Head(mobile)>> \o sub_non_digits(Tail(mobile))
    ELSE sub_non_digits(Tail(mobile))

\* clean_mobile with the country code put before every number of ten digits
\* or more.
clean_mobile_prefixing_longer(mobile) ==
    LET digits == sub_non_digits(mobile)
    IN IF Len(digits) >= LocalDigits THEN CountryCode \o digits ELSE digits

\* clean_mobile, as both senders compute it.
clean_mobile(mobile) ==
    LET digits == sub_non_digits(mobile)
    IN IF Len(digits) = LocalDigits THEN CountryCode \o digits ELSE digits

\* A sender making its request before it looks at the credentials.
send_meta_whatsapp_otp_posting_first(mobile, tenant, answer) ==
    IF CredentialsMissing(tenant)
    THEN [result |-> {"status", "message"}, requests |-> 1,
          to |-> clean_mobile(mobile)]
    ELSE [result |-> IF answer = {"raise"} THEN {"result", "message"}
                     ELSE answer,
          requests |-> 1, to |-> clean_mobile(mobile)]

\* send_meta_whatsapp_otp, by the keys of the dict it returns: without
\* credentials for the app a dict with status and message and no request;
\* otherwise one POST and the provider's JSON answer, or a dict with result
\* and message when the request or the decoding of its answer raises.
send_meta_whatsapp_otp(mobile, tenant, answer) ==
    IF CredentialsMissing(tenant)
    THEN [result |-> {"status", "message"}, requests |-> 0, to |-> None]
    ELSE [result |-> IF answer = {"raise"} THEN {"result", "message"}
                     ELSE answer,
          requests |-> 1, to |-> clean_mobile(mobile)]

\* send_whatsapp_marketing_template, likewise.
send_whatsapp_marketing_template(mobile, tenant, answer) ==
    IF CredentialsMissing(tenant)
    THEN [result |-> {"status", "message"}, requests |-> 0, to |-> None]
    ELSE [result |-> IF answer = {"raise"} THEN {"result", "message"}
                     ELSE answer,
          requests |-> 1, to |-> clean_mobile(mobile)]

\* What an endpoint answers once the sender has returned.
SendResponse(sent) ==
    IF "error" \in sent.result
    THEN [statuscode |-> 500, status |-> "error", sent |-> sent]
    ELSE [statuscode |-> HTTP_OK, status |-> "success", sent |-> sent]

\* send_meta_otp_endpoint: authorized tells that the Authorization header
\* carries the token, known that app_name names an app of APP_CONFIG.
send_meta_otp_endpoint(authorized, mobile, tenant, answer) ==
    IF ~authorized
    THEN [statuscode |-> 401, status |-> "Unauthorized", sent |-> NoSent]
    ELSE IF ~tenant.known
    THEN [statuscode |-> 400, status |-> "error", sent |-> NoSent]
    ELSE SendResponse(send_meta_whatsapp_otp(mobile, tenant, answer))

\* send_marketing_template_endpoint
send_marketing_template_endpoint(authorized, mobile, tenant, answer) ==
    IF ~authorized
    THEN [statuscode |-> 401, status |-> "Unauthorized", sent |-> NoSent]
    ELSE IF ~tenant.known
    THEN [statuscode |-> 400, status |-> "error", sent |-> NoSent]
    ELSE SendResponse(send_whatsapp_marketing_template(mobile, tenant, answer))

\* send_whatsapp_otp_endpoint that stores the session before it looks the
\* application up.
send_whatsapp_otp_endpoint_storing_first(store, t, mobile, tenant, otp, answer) ==
    LET stored == Put(store, mobile, [otp |-> otp, expires |-> t + OTP_TTL])
    IN IF ~tenant.known
       THEN [otp_store |-> stored, statuscode |-> 400, status |-> "error",
             otp |-> None, sent |-> NoSent]
       ELSE Only({[otp_store |-> stored, statuscode |-> r.statuscode,
                   status |-> r.status,
                   otp |-> IF r.statuscode = HTTP_OK THEN otp ELSE None,
                   sent |-> r.sent] :
                     r \in {SendResponse(
                                send_meta_whatsapp_otp(mobile, tenant, answer))}})

\* send_whatsapp_otp_endpoint: the session is stored before the code is sent.
\* Status code 400 is the answer "Unsupported app".
send_whatsapp_otp_endpoint(store, t, mobile, tenant, otp, answer) ==
    IF ~tenant.known
    THEN [otp_store |-> store, statuscode |-> 400, status |-> "error",
          otp |-> None, sent |-> NoSent]
    ELSE LET stored == Put(store, mobile,
                           [otp |-> otp, expires |-> t + OTP_TTL])
         IN Only({[otp_store |-> stored, statuscode |-> r.statuscode,
                   status |-> r.status,
                   otp |-> IF r.statuscode = HTTP_OK THEN otp ELSE None,
                   sent |-> r.sent] :
                     r \in {SendResponse(
                                send_meta_whatsapp_otp(mobile, tenant, answer))}})

Without(store, phone) == [k \in DOMAIN store \ {phone} |-> store[k]]

\* verify_otp with one line changed: "keep_valid" leaves the session in place
\* after a match, "drop_invalid" deletes it on a mismatch, "code_first"
\* compares the code before the expiry time, "absent_expired" reports a
\* missing session as an expired one, "purge_expired" deletes every expired
\* session when it finds the one asked for expired, "lookup_first" looks the
\* user up before it deletes the session.
verify_otp_variant(store, usrs, t, phone, otp, es_ok, how) ==
    LET rejected(st, text) ==
            [otp_store |-> st, users |-> usrs, status |-> 400,
             detail |-> text, valid |-> FALSE]
        consumed ==
            IF how = "keep_valid" THEN store ELSE Without(store, phone)
        mismatch ==
            rejected(IF how = "drop_invalid"
                     THEN Without(store, phone) ELSE store, "Invalid OTP")
    IN IF ~Truthy(phone) \/ ~Truthy(otp)
       THEN rejected(store, "Phone and OTP required")
       ELSE IF phone \notin DOMAIN store
       THEN rejected(store, IF how = "absent_expired" THEN "OTP expired"
                            ELSE "OTP not requested or expired")
       ELSE IF how = "code_first" /\ store[phone].otp # otp
       THEN mismatch
       ELSE IF t > store[phone].expires
       THEN rejected(IF how = "purge_expired"
                     THEN [k \in {q \in DOMAIN store : t <= store[q].expires}
                              |-> store[k]]
                     ELSE Without(store, phone), "OTP expired")
       ELSE IF store[phone].otp # otp
       THEN mismatch
       ELSE IF ~es_ok
       THEN [otp_store |-> IF how = "lookup_first" THEN store ELSE consumed,
             users |-> usrs,
             status |-> 500, detail |-> "Service temporarily unavailable",
             valid |-> TRUE]
       ELSE [otp_store |-> consumed, users |-> usrs \cup {phone},
             status |-> HTTP_OK, detail |-> "access_token", valid |-> TRUE]

verify_otp_lookup_first(store, usrs, t, phone, otp, es_ok) ==
    verify_otp_variant(store, usrs, t, phone, otp, es_ok, "lookup_first")

verify_otp_keeping_session(store, usrs, t, phone, otp, es_ok) ==
    verify_otp_variant(store, usrs, t, phone, otp, es_ok, "keep_valid")

verify_otp_dropping_on_mismatch(store, usrs, t, phone, otp, es_ok) ==
    verify_otp_variant(store, usrs, t, phone, otp, es_ok, "drop_invalid")

verify_otp_code_first(store, usrs, t, phone, otp, es_ok) ==
    verify_otp_variant(store, usrs, t, phone, otp, es_ok, "code_first")

verify_otp_absent_expired(store, usrs, t, phone, otp, es_ok) ==
    verify_otp_variant(store, usrs, t, phone, otp, es_ok, "absent_expired")

verify_otp_purging_expired(store, usrs, t, phone, otp, es_ok) ==
    verify_otp_variant(store, usrs, t, phone, otp, es_ok, "purge_expired")

\* verify_otp.  The handler is a coroutine that never awaits, so the event
\* loop runs it from the lookup to the deletion without another request in
\* between; es_ok tells whether the users index answers.
verify_otp(store, usrs, t, phone, otp, es_ok) ==
    LET rejected(st, text) ==
            [otp_store |-> st, users |-> usrs, status |-> 400,
             detail |-> text, valid |-> FALSE]
    IN IF ~Truthy(phone) \/ ~Truthy(otp)
       THEN rejected(store, "Phone and OTP required")
       ELSE IF phone \notin DOMAIN store
       THEN rejected(store, "OTP not requested or expired")
       ELSE IF t > store[phone].expires
       THEN rejected(Without(store, phone), "OTP expired")
       ELSE IF store[phone].otp # otp
       THEN rejected(store, "Invalid OTP")
       ELSE IF ~es_ok
       THEN [otp_store |-> Without(store, phone), users |-> usrs,
             status |-> 500, detail |-> "Service temporarily unavailable",
             valid |-> TRUE]
       ELSE [otp_store |-> Without(store, phone), users |-> usrs \cup {phone},
             status |-> HTTP_OK, detail |-> "access_token", valid |-> TRUE]

LoginOtp ==
    \E phone \in Phones \cup {None}, otp \in Codes, post_ok \in BOOLEAN :
        \E r \in {login_otp(otp_store, now, phone, otp, post_ok)} :
           /\ otp_store' = r.otp_store
           /\ reply' = [op |-> "login_otp", seq |-> 1 - reply.seq,
                        phone |-> phone,
                        otp |-> IF Truthy(phone) THEN otp ELSE None,
                        replaced |-> IF phone \in DOMAIN otp_store
                                     THEN otp_store[phone].otp ELSE None,
                        status |-> r.status, detail |-> r.detail,
                        matched |-> FALSE, config |-> NoTenant,
                        sent |-> r.sent, body_otp |-> r.dev_otp]
           /\ accepted' = [p \in Phones |->
                              IF p = phone THEN 0 ELSE accepted[p]]
           /\ UNCHANGED <<config, raceVars, cacheVars, indexVars, ingestVars, syncVars,
                          now, users>>

SendWhatsappOtp ==
    \E mobile \in Phones, otp \in Codes,
       meta \in MetaOutcomes \cup {<<NoTenant, {"raise"}>>} :
        \E r \in {send_whatsapp_otp_endpoint(otp_store, now, mobile, meta[1],
                                             otp, meta[2])} :
           /\ otp_store' = r.otp_store
           /\ reply' = [op |-> "send_whatsapp_otp", seq |-> 1 - reply.seq,
                        phone |-> mobile,
                        otp |-> IF meta[1].known THEN otp ELSE None,
                        replaced |-> IF /\ meta[1].known
                                        /\ mobile \in DOMAIN otp_store
                                     THEN otp_store[mobile].otp ELSE None,
                        status |-> r.statuscode, detail |-> r.status,
                        matched |-> FALSE, config |-> meta[1],
                        sent |-> r.sent, body_otp |-> r.otp]
           /\ accepted' = [p \in Phones |->
                              IF p = mobile /\ meta[1].known
                              THEN 0 ELSE accepted[p]]
           /\ UNCHANGED <<config, raceVars, cacheVars, indexVars, ingestVars, syncVars,
                          now, users>>

VerifyOtp ==
    \E phone \in Phones \cup {None}, otp \in Codes \cup {<<>>, None},
       es_ok \in BOOLEAN :
        \E r \in {verify_otp(otp_store, users, now, phone, otp, es_ok)} :
           /\ otp_store' = r.otp_store
           /\ users' = r.users
           /\ reply' = [op |-> "verify_otp", seq |-> 1 - reply.seq,
                        phone |-> phone, otp |-> None, replaced |-> None,
                        status |-> r.status, detail |-> r.detail,
                        matched |-> /\ phone \in DOMAIN otp_store
                                    /\ otp_store[phone].otp = otp,
                        config |-> NoTenant, sent |-> NoSent,
                        body_otp |-> None]
           /\ accepted' = [p \in Phones |->
                              IF p = phone /\ r.valid
                              THEN accepted[p] + 1 ELSE accepted[p]]
           /\ UNCHANGED <<config, raceVars, cacheVars, indexVars, ingestVars, syncVars,
                          now>>

Tick ==
    /\ now + TickStep <= MaxTime
    /\ now' = now + TickStep
    /\ UNCHANGED <<config, raceVars, cacheVars, indexVars, ingestVars, syncVars,
                   otp_store, users, reply, accepted>>

NextOtp == LoginOtp \/ SendWhatsappOtp \/ VerifyOtp \/ Tick

SpecOtp == Init /\ [][NextOtp]_vars

-----------------------------------------------------------------------------
(* The outbound gateway *)

Ten == <<"9", "8", "7", "6", "5", "4", "3", "2", "1", "0">>

\* Numbers of ten digits, bare and with another character between them, and
\* numbers of nine, eleven and twelve digits.
Mobiles ==
    {Ten,
     <<"9", "8", "7", "6", "5", "-">> \o <<"4", "3", "2", "1", "0">>,
     <<"+">> \o CountryCode \o <<" ">> \o Ten,
     <<"0">> \o Ten,
     Tail(Ten)}

\* The response of a send endpoint as the reply of the request.
SendReply(op, mobile, tenant, r) ==
    [NoReply EXCEPT !.op = op, !.seq = 1 - reply.seq, !.phone = mobile,
                    !.status = r.statuscode, !.detail = r.status,
                    !.config = tenant, !.sent = r.sent]

\* A call of send_meta_whatsapp_otp with an application name of any kind.
SendMetaWhatsappOtp ==
    \E mobile \in Mobiles, tenant \in TenantConfigs, answer \in MetaAnswers :
        /\ reply' = SendReply("send_meta_whatsapp_otp", mobile, tenant,
                              [statuscode |-> 0, status |-> "",
                               sent |-> send_meta_whatsapp_otp(mobile, tenant,
                                                               answer)])
        /\ UNCHANGED <<config, raceVars, cacheVars, indexVars, ingestVars,
                       syncVars, otp_store, now, users, accepted>>

\* A call of send_whatsapp_marketing_template.
SendWhatsappMarketingTemplate ==
    \E mobile \in Mobiles, tenant \in TenantConfigs, answer \in MetaAnswers :
        /\ reply' = SendReply("send_whatsapp_marketing_template", mobile,
                              tenant,
                              [statuscode |-> 0, status |-> "",
                               sent |-> send_whatsapp_marketing_template(
                                            mobile, tenant, answer)])
        /\ UNCHANGED <<config, raceVars, cacheVars, indexVars, ingestVars,
                       syncVars, otp_store, now, users, accepted>>

\* A call of send_periskope_message.
SendPeriskopeMessage ==
    \E phone \in Phones, post_ok \in BOOLEAN :
        \E m \in {send_periskope_message(phone, post_ok)} :
           /\ reply' = SendReply("send_periskope_message", phone, NoTenant,
                                 [statuscode |-> 0,
                                  status |-> IF m.ok THEN "True" ELSE "False",
                                  sent |-> [requests |-> m.requests,
                                            to |-> m.to, result |-> {}]])
           /\ UNCHANGED <<config, raceVars, cacheVars, indexVars, ingestVars,
                          syncVars, otp_store, now, users, accepted>>

\* POST /send-meta-otp
SendMetaOtp ==
    \E authorized \in BOOLEAN, mobile \in Mobiles, tenant \in TenantConfigs,
       answer \in MetaAnswers :
        /\ reply' = SendReply("send_meta_otp", mobile, tenant,
                              send_meta_otp_endpoint(authorized, mobile, tenant,
                                                     answer))
        /\ UNCHANGED <<config, raceVars, cacheVars, indexVars, ingestVars,
                       syncVars, otp_store, now, users, accepted>>

\* POST /send-marketing-template
SendMarketingTemplate ==
    \E authorized \in BOOLEAN, mobile \in Mobiles, tenant \in TenantConfigs,
       answer \in MetaAnswers :
        /\ reply' = SendReply("send_marketing_template", mobile, tenant,
                              send_marketing_template_endpoint(
                                  authorized, mobile, tenant, answer))
        /\ UNCHANGED <<config, raceVars, cacheVars, indexVars, ingestVars,
                       syncVars, otp_store, now, users, accepted>>

NextGateway ==
    \/ SendMetaWhatsappOtp
    \/ SendWhatsappMarketingTemplate
    \/ SendMetaOtp
    \/ SendMarketingTemplate
    \/ SendWhatsappOtp
    \/ SendPeriskopeMessage

SpecGateway == Init /\ [][NextGateway]_vars

-----------------------------------------------------------------------------
(* The webhook enrichment job *)

\* A JSON object given as the value of a field.
DictValue == <<"{}">>

\* The end of the run of digits of s that starts at position i.
RECURSIVE DigitsEnd(_, _)
DigitsEnd(s, i) ==
    IF i <= Len(s) /\ s[i] \in Digits THEN DigitsEnd(s, i + 1) ELSE i

\* re.findall(r'@(\d+)', s), scanning from position i.
RECURSIVE findall_mentions(_, _)
findall_mentions(s, i) ==
    IF i > Len(s) THEN <<>>
    ELSE IF s[i] = "@" /\ DigitsEnd(s, i + 1) > i + 1
    THEN <<SubSeq(s, i + 1, DigitsEnd(s, i + 1) - 1)>>
             \o findall_mentions(s, DigitsEnd(s, i + 1))
    ELSE findall_mentions(s, i + 1)

StartsWith(s, old) == Len(s) >= Len(old) /\ SubSeq(s, 1, Len(old)) = old

\* s.replace(old, new) for a non-empty old: every occurrence, left to right.
RECURSIVE replace(_, _, _)
replace(s, old, new) ==
    IF s = <<>> THEN <<>>
    ELSE IF StartsWith(s, old)
    THEN new \o replace(SubSeq(s, Len(old) + 1, Len(s)), old, new)
    ELSE <<Head(s)>> \o replace(Tail(s), old, new)

Timeout == [kind |-> "raise", status |-> 0, body |-> NoBody]

\* A JSON string, as opposed to null, a missing key or an object.
IsStr(v) == v \notin {None, Missing, DictValue}

\* One call of get_chat_name inside a job: st carries the cache, the answers
\* the directory will give to the requests still to come, and their count.
\* For a chat_id that is not a str the cache lookup fails into a miss and
\* chat_id.isdigit() raises, outside any try of get_chat_name.
lookup(st, chat_id) ==
    LET resp == IF st.answers = <<>> THEN Timeout ELSE Head(st.answers)
    IN IF ~IsStr(chat_id)
       THEN [st EXCEPT !.raised = TRUE, !.ret = None,
                       !.calls = Append(@, <<chat_id, None>>)]
       ELSE Only({[cache |-> r.cache,
                   answers |-> IF r.requests = 1 /\ st.answers # <<>>
                               THEN Tail(st.answers) ELSE st.answers,
                   requests |-> st.requests + r.requests,
                   ret |-> r.ret,
                   raised |-> FALSE,
                   calls |-> Append(st.calls, <<chat_id, r.ret>>)] :
                     r \in {get_chat_name(st.cache, chat_id, resp)}})

\* The loop over the mentions found in the body.
RECURSIVE replace_mentions(_, _, _)
replace_mentions(st, body, mentions) ==
    IF mentions = <<>> THEN [st |-> st, body |-> body]
    ELSE LET phone == Head(mentions)
             replaced(contact_name) ==
                 IF Truthy(contact_name) /\ contact_name # phone
                 THEN replace(body, <<"@">> \o phone, contact_name)
                 ELSE body
         IN Only({replace_mentions(r, replaced(r.ret), Tail(mentions)) :
                    r \in {lookup(st, phone)}})

\* es.index(index=INDEX_NAME, id=msg_id, document=doc), or without an id.
es_index_unkeyed(idx, n, msg_id, doc) ==
    [msg_index |-> idx, assigned |-> n + 1]

\* es.index that keeps the fields of the document already under the id.
es_index_merging(idx, n, msg_id, doc) ==
    IF Truthy(msg_id)
    THEN [msg_index |->
              Put(idx, msg_id,
                  [k \in DOMAIN Get(idx, msg_id, EmptyMap) \cup DOMAIN doc |->
                      IF k \in DOMAIN doc THEN doc[k] ELSE idx[msg_id][k]]),
          assigned |-> n]
    ELSE [msg_index |-> idx, assigned |-> n + 1]

es_index(idx, n, msg_id, doc) ==
    IF Truthy(msg_id)
    THEN [msg_index |-> Put(idx, msg_id, doc), assigned |-> n]
    ELSE [msg_index |-> idx, assigned |-> n + 1]

\* es.update(index=INDEX_NAME, id=msg_id, doc=doc, doc_as_upsert=True): the
\* fields of doc are merged into the document of the id, which is created
\* when there is none.
es_update(idx, msg_id, doc) ==
    Put(idx, msg_id,
        [k \in DOMAIN Get(idx, msg_id, EmptyMap) \cup DOMAIN doc |->
            IF k \in DOMAIN doc THEN doc[k] ELSE idx[msg_id][k]])

\* The steps of process_webhook_message, each on the job's state x: the
\* document built so far and the cache with the answers still to come (st).
\* A step that raised leaves the steps after it out: the except of the
\* whole function is the only one around the chat and sender steps.
normalize_id(event, data) ==
    LET doc == [k \in DOMAIN data \cup {"event"} |->
                   IF k \in DOMAIN data THEN data[k] ELSE event]
    IN IF "id" \in DOMAIN doc /\ doc["id"] = DictValue
       THEN Put(Pop(doc, "id"), "id_details", doc["id"])
       ELSE doc

enrich_chat_name(x) ==
    IF ~x.st.raised /\ "chat_id" \in DOMAIN x.doc
    THEN Only({[st |-> r,
                doc |-> IF r.raised THEN x.doc
                        ELSE Put(x.doc, "chat_name", r.ret)] :
                 r \in {lookup(x.st, x.doc["chat_id"])}})
    ELSE x

\* The sender step without its from_me test.
enrich_sender_name_always(x) ==
    IF ~x.st.raised /\ "sender_phone" \in DOMAIN x.doc
    THEN Only({[st |-> r,
                doc |-> IF r.raised THEN x.doc
                        ELSE Put(x.doc, "sender_name", r.ret)] :
                 r \in {lookup(x.st, x.doc["sender_phone"])}})
    ELSE x

enrich_sender_name(x) ==
    IF /\ ~x.st.raised
       /\ "sender_phone" \in DOMAIN x.doc
       /\ ~Get(x.doc, "from_me", FALSE)
    THEN Only({[st |-> r,
                doc |-> IF r.raised THEN x.doc
                        ELSE Put(x.doc, "sender_name", r.ret)] :
                 r \in {lookup(x.st, x.doc["sender_phone"])}})
    ELSE x

\* re.findall raises on a body that is not a str; the try around the
\* mention step catches it and the body stays as it is.
enrich_body(x) ==
    IF /\ ~x.st.raised
       /\ "body" \in DOMAIN x.doc
       /\ Truthy(x.doc["body"])
       /\ IsStr(x.doc["body"])
    THEN Only({[st |-> m.st, doc |-> Put(x.doc, "body", m.body)] :
                 m \in {replace_mentions(x.st, x.doc["body"],
                                         findall_mentions(x.doc["body"], 1))}})
    ELSE x

\* The write step keyed by message_id alone.
index_document_by_message_id(x, idx, n) ==
    LET msg_id == Get(x.doc, "message_id", None)
    IN IF x.st.raised
       THEN [cache |-> x.st.cache, msg_index |-> idx, assigned |-> n,
             requests |-> x.st.requests, key |-> None, doc |-> x.doc,
             calls |-> x.st.calls, raised |-> TRUE, wrote |-> FALSE]
       ELSE Only({[cache |-> x.st.cache, msg_index |-> w.msg_index,
                   assigned |-> w.assigned, requests |-> x.st.requests,
                   key |-> msg_id, doc |-> x.doc, calls |-> x.st.calls,
                   raised |-> FALSE, wrote |-> TRUE] :
                     w \in {es_index(idx, n, msg_id, x.doc)}})

\* The message index is taken to accept every write: the except around
\* es.index is not modelled.
index_document(x, idx, n) ==
    LET msg_id == IF Truthy(Get(x.doc, "message_id", None))
                  THEN x.doc["message_id"] ELSE Get(x.doc, "id", None)
    IN IF x.st.raised
       THEN [cache |-> x.st.cache, msg_index |-> idx, assigned |-> n,
             requests |-> x.st.requests, key |-> None, doc |-> x.doc,
             calls |-> x.st.calls, raised |-> TRUE, wrote |-> FALSE]
       ELSE Only({[cache |-> x.st.cache, msg_index |-> w.msg_index,
                   assigned |-> w.assigned, requests |-> x.st.requests,
                   key |-> msg_id, doc |-> x.doc, calls |-> x.st.calls,
                   raised |-> FALSE, wrote |-> TRUE] :
                     w \in {es_index(idx, n, msg_id, x.doc)}})

\* process_webhook_message: the steps in the order of the code, each applied
\* to the value the step before it produced.
process_webhook_message(c, idx, n, event, data, answers) ==
    Only({index_document(x3, idx, n) :
            x3 \in {enrich_body(x2) :
            x2 \in {enrich_sender_name(x1) :
            x1 \in {enrich_chat_name(x0) :
            x0 \in {[st |-> [cache |-> c, answers |-> answers,
                             requests |-> 0, ret |-> None,
                             raised |-> FALSE, calls |-> <<>>],
                     doc |-> normalize_id(event, data)]}}}}})

\* a or b of Python, for the values of two keys of a payload.
EitherKey(payload, a, b) ==
    IF Truthy(Get(payload, a, None)) THEN payload[a] ELSE Get(payload, b, None)

\* post_whatsapp_ai_processed_data: the partial document it merges into the
\* document of the message, with the chat name looked up when the payload
\* has none or one that looks like an id.
post_whatsapp_ai_processed_data(c, idx, payload, resp) ==
    LET msg_id == Get(payload, "message_id", None)
        chat_id == EitherKey(payload, "group_id", "chat_id")
        chat_name == EitherKey(payload, "group_name", "chat_name")
        looks_up == /\ Truthy(chat_id)
                    /\ \/ ~Truthy(chat_name)
                       \/ chat_name = chat_id
                       \/ \E i \in 1..Len(chat_name) : chat_name[i] = "@"
                       \/ isdigit(chat_name)
        g == IF looks_up THEN get_chat_name(c, chat_id, resp)
             ELSE [ret |-> None, cache |-> c, requests |-> 0]
        update_doc ==
            [class |-> Get(payload, "class", None),
             confidence |-> Get(payload, "confidence", None),
             pond_name |-> Get(payload, "pond_name", None),
             data |-> Get(payload, "data", None),
             chat_id |-> chat_id,
             chat_name |-> IF looks_up /\ Truthy(g.ret) /\ g.ret # chat_id
                           THEN g.ret ELSE chat_name]
    IN IF Truthy(msg_id)
       THEN [cache |-> g.cache, msg_index |-> es_update(idx, msg_id, update_doc),
             wrote |-> TRUE]
       ELSE [cache |-> c, msg_index |-> idx, wrote |-> FALSE]

\* The events delivered.
MessageId == <<"m", "1">>

PrefixedPhone == Phone \o <<"8">>

Payloads ==
    {[event |-> "message.created",
      data |-> [message_id |-> MessageId, chat_id |-> Phone,
                sender_phone |-> Contact, body |-> <<"@", "7">>]],
     [event |-> "message.created",
      data |-> [id |-> DictValue, chat_id |-> Group, sender_phone |-> Phone,
                from_me |-> TRUE, body |-> DictValue]],
     [event |-> "message.created",
      data |-> [id |-> MessageId, chat_id |-> Group, from_me |-> FALSE,
                body |-> <<"h", "i">>]],
     [event |-> "message.created",
      data |-> [message_id |-> MessageId, chat_id |-> None,
                body |-> <<"h", "i">>]],
     [event |-> "message.created",
      data |-> [message_id |-> MessageId,
                body |-> <<"@">> \o Phone \o <<"@">> \o PrefixedPhone]],
     [event |-> "message.ack.updated",
      data |-> [message_id |-> MessageId, ack |-> <<"3">>]]}

\* At most one directory request for the chat, the sender and each mention.
Lookups(data) ==
    (IF "chat_id" \in DOMAIN data THEN 1 ELSE 0)
    + (IF "sender_phone" \in DOMAIN data THEN 1 ELSE 0)
    + (IF "body" \in DOMAIN data /\ IsStr(data["body"])
       THEN Len(findall_mentions(data["body"], 1)) ELSE 0)

JobResponses ==
    {Timeout,
     [kind |-> "http", status |-> HTTP_OK,
      body |-> [shape |-> "dict", chat_name |-> TeamName,
                members |-> [shape |-> "dict",
                             items |-> <<<<Contact,
                                           [shape |-> "dict",
                                            contact_name |-> MemberName]>>>>]]]}

\* One run of process_webhook_message on a payload.
RunJob(payload) ==
    \E answers \in [1..Lookups(payload.data) -> JobResponses] :
        \E r \in {process_webhook_message(cache, msg_index, assigned,
                                            payload.event, payload.data,
                                            answers)} :
           /\ r.assigned <= MaxAssigned
           /\ cache' = r.cache
           /\ msg_index' = r.msg_index
           /\ assigned' = r.assigned
           /\ job' = [seq |-> 1 - job.seq, payload |-> payload,
                      requests |-> r.requests,
                      again |-> job.payload = payload /\ job.requests = 0,
                      key |-> r.key, doc |-> r.doc, calls |-> r.calls,
                      raised |-> r.raised, wrote |-> r.wrote,
                      dropped |->
                          IF Truthy(r.key) /\ r.key \in DOMAIN msg_index
                          THEN DOMAIN msg_index[r.key]
                                   \ DOMAIN r.msg_index[r.key]
                          ELSE {}]
           /\ UNCHANGED <<config, raceVars, call, otpVars, ack, syncVars>>

\* The job of an event that was delivered and acknowledged before.
ProcessWebhookMessage ==
    \E payload \in Payloads : RunJob(payload) /\ UNCHANGED tasks

\* The results posted for a message: of the message delivered, in a group
\* the payload does not name, and of no message.
AiPayloads ==
    {[message_id |-> MessageId, class |-> <<"a">>, group_id |-> Group],
     [class |-> <<"a">>, group_id |-> Group, group_name |-> TeamName]}

PostWhatsappAiProcessedData ==
    \E payload \in AiPayloads, resp \in JobResponses :
        \E r \in {post_whatsapp_ai_processed_data(cache, msg_index, payload,
                                                   resp)} :
           /\ cache' = r.cache
           /\ msg_index' = r.msg_index
           /\ job' = NoJob
           /\ UNCHANGED <<config, raceVars, call, otp_store, now, users, reply,
                          accepted, assigned, tasks, ack, syncVars>>

NextWebhook ==
    ProcessWebhookMessage \/ PostWhatsappAiProcessedData \/ SetGroupName

SpecWebhook == Init /\ [][NextWebhook]_vars

-----------------------------------------------------------------------------
(* The webhook endpoint *)

RecognizedEvents == {"message.created", "message.ack.updated"}

\* A request body: not JSON, a JSON array, or a JSON object.  Of an object,
\* event and event_type are the values of these keys, "" when the key is
\* missing, null or empty; data tells whether the key data is missing, null
\* or an object, and fields is that object.
NoFields == [json |-> "object", event |-> "", event_type |-> "",
             data |-> "missing", fields |-> EmptyMap]

\* The events posted to the endpoint: those that carry a message_id.
Deliveries == {p \in Payloads : "message_id" \in DOMAIN p.data}

Requests ==
    {[NoFields EXCEPT !.json = "invalid"], [NoFields EXCEPT !.json = "array"]}
    \cup {[NoFields EXCEPT !.event = p.event, !.data = "object",
                           !.fields = p.data] : p \in Deliveries}
    \cup {[NoFields EXCEPT !.event_type = "message.created",
                           !.data = "object", !.fields = p.data] :
             p \in {q \in Payloads : "ack" \in DOMAIN q.data}}
    \cup {[NoFields EXCEPT !.event = "chat.created", !.data = "object",
                           !.fields = p.data] :
             p \in {q \in Payloads : "ack" \in DOMAIN q.data}}
    \cup {[NoFields EXCEPT !.data = "object", !.fields = p.data] :
             p \in {q \in Payloads : "ack" \in DOMAIN q.data}}
    \cup {[NoFields EXCEPT !.event = "message.created", !.data = d] :
             d \in {"missing", "null", "object"}}

\* webhook with the test of the event left out.
webhook_any_event(queue, request) ==
    IF request.json = "invalid"
    THEN [tasks |-> queue, status |-> 400, body |-> "Invalid JSON"]
    ELSE IF request.json # "object"
    THEN [tasks |-> queue, status |-> 500, body |-> "Internal Server Error"]
    ELSE LET event == IF request.event # "" THEN request.event
                      ELSE request.event_type
         IN IF request.data = "object" /\ DOMAIN request.fields # {}
            THEN [tasks |-> Append(queue, [event |-> event,
                                           data |-> request.fields]),
                  status |-> HTTP_OK, body |-> "ok"]
            ELSE [tasks |-> queue, status |-> HTTP_OK, body |-> "ok"]

\* webhook: a body that is not JSON is answered 400; on a JSON body that is
\* not an object payload.get raises and the framework answers 500.
webhook(queue, request) ==
    IF request.json = "invalid"
    THEN [tasks |-> queue, status |-> 400, body |-> "Invalid JSON"]
    ELSE IF request.json # "object"
    THEN [tasks |-> queue, status |-> 500, body |-> "Internal Server Error"]
    ELSE LET event == IF request.event # "" THEN request.event
                      ELSE request.event_type
         IN IF /\ event \in RecognizedEvents
               /\ request.data = "object"
               /\ DOMAIN request.fields # {}
            THEN [tasks |-> Append(queue, [event |-> event,
                                           data |-> request.fields]),
                  status |-> HTTP_OK, body |-> "ok"]
            ELSE [tasks |-> queue, status |-> HTTP_OK, body |-> "ok"]

Webhook ==
    \E request \in Requests :
        \E r \in {webhook(tasks, request)} :
           /\ Len(r.tasks) <= MaxTasks
           /\ tasks' = r.tasks
           /\ ack' = [seq |-> 1 - ack.seq, status |-> r.status,
                      body |-> r.body, scheduled |-> r.tasks # tasks,
                      request |-> [json |-> request.json,
                                   event |-> request.event,
                                   event_type |-> request.event_type,
                                   data |-> IF /\ request.data = "object"
                                               /\ DOMAIN request.fields = {}
                                            THEN "empty"
                                            ELSE request.data]]
           /\ UNCHANGED <<config, raceVars, cacheVars, otpVars, indexVars, syncVars>>

\* A run that takes its event from anywhere but the tasks added.
RunUnscheduled ==
    \E payload \in Deliveries : RunJob(payload) /\ UNCHANGED tasks

\* The framework runs the tasks added by a request after it has sent the
\* response of that request, in the order they were added.
BackgroundTask ==
    /\ tasks # <<>>
    /\ RunJob(Head(tasks))
    /\ tasks' = Tail(tasks)

NextIngest == Webhook \/ BackgroundTask

SpecIngest == Init /\ [][NextIngest]_vars

-----------------------------------------------------------------------------
(* Claims about get_chat_name, checked under SpecCache *)

\* The step just taken was a call of get_chat_name.
Resolved == call'.seq # call.seq /\ call'.op = "get_chat_name"

Uncached(c, chat_id) ==
    /\ chat_id \notin DOMAIN c
    /\ isdigit(chat_id) => chat_id \o ContactSuffix \notin DOMAIN c

\* C1: get_chat_name always returns a string, whatever the directory
\* answers: an exception, a 4xx or 5xx status, or a 200 with a malformed
\* body, a null chat_name or members that are not objects.
C1_AlwaysReturnsString ==
    call.op = "get_chat_name" => call.ret # None

\* C2: for every id that has an entry in the cache, get_chat_name returns
\* the stored name and makes no directory request.
C2_CacheHit ==
    [][Resolved /\ call'.chat_id \in DOMAIN cache
          => call'.ret = cache[call'.chat_id] /\ call'.requests = 0]_vars

\* C3: for a numeric id with no entry of its own and an entry under
\* id + "@c.us", get_chat_name returns the name stored under the suffixed
\* key, makes no directory request and writes nothing.
C3_SuffixFallback ==
    [][Resolved /\ isdigit(call'.chat_id)
                /\ call'.chat_id \notin DOMAIN cache
                /\ call'.chat_id \o ContactSuffix \in DOMAIN cache
          => /\ call'.ret = cache[call'.chat_id \o ContactSuffix]
             /\ call'.requests = 0
             /\ cache' = cache]_vars

\* C4 as stated: for every id with no entry under the id itself, without
\* the API key or the organization phone get_chat_name returns the id, makes
\* no directory request and writes nothing.
C4_NoCredentialsOwnKey ==
    [][Resolved /\ call'.chat_id \notin DOMAIN cache
                /\ (~PERISKOPE_API_KEY \/ ~PERISKOPE_ORG_PHONE)
          => /\ call'.ret = call'.chat_id
             /\ call'.requests = 0
             /\ cache' = cache]_vars

\* C4 amended: for every id with no entry under the id itself nor, when the
\* id is numeric, under id + "@c.us", without the API key or the
\* organization phone get_chat_name returns the id, makes no directory
\* request and writes nothing.
C4_NoCredentials ==
    [][Resolved /\ Uncached(cache, call'.chat_id)
                /\ (~PERISKOPE_API_KEY \/ ~PERISKOPE_ORG_PHONE)
          => /\ call'.ret = call'.chat_id
             /\ call'.requests = 0
             /\ cache' = cache]_vars

C4_Witness ==
    /\ call.op = "get_chat_name"
    /\ ~PERISKOPE_API_KEY \/ ~PERISKOPE_ORG_PHONE
    /\ Uncached(cache, call.chat_id)
    /\ call.ret = call.chat_id
    /\ Contact \in DOMAIN cache

\* C5: when the directory request fails (it raises, or its status is not
\* 200), get_chat_name returns the id and the cache is left as it was.
C5_DirectoryFailure ==
    [][Resolved /\ call'.requests = 1 /\ call'.failed
          => call'.ret = call'.chat_id /\ cache' = cache]_vars

C5_Witness ==
    /\ call.op = "get_chat_name"
    /\ call.requests = 1
    /\ call.failed
    /\ call.ret = call.chat_id
    /\ DOMAIN cache # {}

\* C6: after get_chat_name resolves an uncached chat through the directory
\* and the answer lists N members, the cache holds the chat under the
\* directory's chat name, at most N other entries are new, and every entry
\* that existed before the call still holds its previous name.
C6_GroupWriteBack ==
    [][Resolved /\ call'.requests = 1 /\ ~call'.failed
                /\ call'.dir_name # Missing
          => /\ call'.chat_id \in DOMAIN cache'
             /\ cache'[call'.chat_id] = call'.dir_name
             /\ Cardinality((DOMAIN cache' \ DOMAIN cache) \ {call'.chat_id})
                    <= call'.dir_members
             /\ \A k \in DOMAIN cache \ {call'.chat_id} :
                    cache'[k] = cache[k]]_vars

\* C30: a call of get_chat_name that follows a call for the same id which
\* found no cached name and got the chat from the directory returns the name
\* that call returned and makes no request to the directory.
C30_ReadThrough ==
    [][(/\ Resolved
        /\ call.op = "get_chat_name"
        /\ call.requests = 1
        /\ ~call.failed
        /\ call.dir_name # Missing
        /\ call'.chat_id = call.chat_id)
          => /\ call'.requests = 0
             /\ call'.ret = call.ret]_vars

\* C35: no entry that a call of get_chat_name writes has its own identifier
\* as its name; the call answered 200 without a chat_name writes no entry for
\* the chat.
C35_NoEntryNamedAfterItsId ==
    [][Resolved
          => \A k \in DOMAIN cache' :
                 (k \notin DOMAIN cache \/ cache[k] # cache'[k])
                     => cache'[k] # k]_vars

-----------------------------------------------------------------------------
(* Claims about bulk_fetch_and_cache_groups, checked under SpecBulk *)

\* C20: in the summary of a pass that succeeds, newly_cached_chats is the
\* number of chats of the answer that had no cache entry before the pass,
\* already_cached the number that had one, and the two add up to
\* total_chats.
C20_SummaryCounts ==
    [][summary'.seq # summary.seq /\ summary'.status = "success"
          => /\ summary'.newly_cached_chats = summary'.uncached_before
             /\ summary'.already_cached =
                    summary'.total_chats - summary'.uncached_before
             /\ summary'.newly_cached_chats + summary'.already_cached =
                    summary'.total_chats]_vars

\* The step just taken was a pass of bulk_fetch_and_cache_groups that the
\* directory answered with a list of chats.
BulkPass ==
    /\ summary'.seq # summary.seq
    /\ summary'.op = "bulk_fetch_and_cache_groups"
    /\ summary'.status = "success"

Named(c, k) == k \in DOMAIN c /\ Truthy(c[k])

\* The names the chats of an answer give for an identifier, as the name of a
\* chat or as the name of a member.
Offered(chats, k) ==
    {chats[i].chat_name :
        i \in {j \in 1..Len(chats) :
                  /\ chats[j].chat_id = k
                  /\ Truthy(chats[j].chat_id)
                  /\ Truthy(chats[j].chat_name)}}
    \cup UNION {{chats[i].members[m][2] :
                    m \in {n \in 1..Len(chats[i].members) :
                              /\ chats[i].members[n][1] = k
                              /\ Truthy(chats[i].members[n][2])}} :
                i \in 1..Len(chats)}

\* The step just taken was a run of the sync script that the directory
\* answered with a list of chats.
SyncPass ==
    /\ summary'.seq # summary.seq
    /\ summary'.op = "sync_all_groups"
    /\ summary'.status = "success"

\* The names, other than the identifier itself, that the chats of an answer
\* give for an identifier as the name of a chat.
ChatNamesFor(chats, k) ==
    {chats[i].chat_name :
        i \in {j \in 1..Len(chats) :
                  /\ chats[j].chat_id = k
                  /\ Truthy(chats[j].chat_id)
                  /\ Truthy(chats[j].chat_name)
                  /\ chats[j].chat_name # k}}

C31_BulkNeedsCredentials ==
    [][(/\ summary'.seq # summary.seq
        /\ summary'.op = "bulk_fetch_and_cache_groups"
        /\ (~PERISKOPE_API_KEY \/ ~PERISKOPE_ORG_PHONE))
       => (/\ summary'.status = "error"
           /\ summary'.requests = 0
           /\ cache' = cache)]_vars

\* A pass without the credentials has returned its error over a cache that
\* holds an entry.
C31_Witness ==
    /\ summary.op = "bulk_fetch_and_cache_groups"
    /\ ~PERISKOPE_API_KEY \/ ~PERISKOPE_ORG_PHONE
    /\ summary.status = "error"
    /\ summary.requests = 0
    /\ cache # EmptyMap

-----------------------------------------------------------------------------
(* Claims about interleaved writers, checked under SpecRace and              *)
(* SpecManualRace                                                            *)

\* The cache that an operation run on its own leaves.
RunAlone(c, writer, d) ==
    IF writer.op = "get_chat_name"
    THEN get_chat_name(c, writer.chat_id,
                       DirectoryChat(d, writer.chat_id)).cache
    ELSE bulk_fetch_and_cache_groups(c, DirectoryChats(d)).cache

\* The caches that the two operations leave when one runs after the other.
Sequential ==
    {RunAlone(RunAlone(race.start, race.writers[a], race.directory),
              race.writers[b], race.directory) :
        <<a, b>> \in {<<1, 2>>, <<2, 1>>}}

RaceOver ==
    \A w \in Writers :
        race.writers[w].op # "idle" /\ race.writers[w].pc = "done"

\* C23: when two operations that began on a cache without entries have made
\* their writes in whatever order, the cache is one that the two operations
\* leave when one runs after the other.
C23_WritersConverge ==
    (RaceOver /\ race.start = EmptyMap) => cache \in Sequential

\* The step just taken is the write of a member name by a writer whose read
\* before it found no named entry.
MemberWriteBack ==
    \E w \in Writers :
        /\ race.writers[w].pc = "write"
        /\ Head(race.writers[w].writes).kind = "member"
        /\ race.writers[w].existing # Missing
        /\ race'.writers[w] # race.writers[w]

\* C24: the write of a member name by get_chat_name or by the bulk sync
\* leaves in place every name that manual mapping stored, whatever the order
\* in which the reads and writes of the writers and the manual writes reach
\* the cache.
C24_ManualNameKept ==
    [][MemberWriteBack =>
          \A k \in DOMAIN cache :
              cache[k] = ManualName => cache'[k] = ManualName]_vars

\* C25: no step of get_chat_name, of the bulk sync or of manual mapping
\* removes an entry of the cache: every identifier that has an entry before
\* the step has one after it.
C25_EntriesAreKept ==
    [][DOMAIN cache \subseteq DOMAIN cache']_vars

\* A call of get_chat_name for the contact and a pass of the bulk sync have
\* both ended, the contact's entry holds the missing name that the call
\* wrote, and the entries of the group and of manual mapping are in place.
C25_Witness ==
    /\ Contact \in DOMAIN cache
    /\ cache[Contact] = None
    /\ Named(cache, Group)
    /\ \E w \in Writers :
           /\ race.writers[w].op = "get_chat_name"
           /\ race.writers[w].chat_id = Contact
           /\ race.writers[w].pc = "done"
    /\ \E w \in Writers :
           /\ race.writers[w].op = "bulk_fetch_and_cache_groups"
           /\ race.writers[w].pc = "done"
    /\ Phone \in DOMAIN cache
    /\ cache[Phone] = ManualName

-----------------------------------------------------------------------------
(* Claims about the outbound gateway, checked under SpecGateway *)

\* The step just taken ran send_meta_whatsapp_otp or
\* send_whatsapp_marketing_template, called as such or by an endpoint that
\* got as far as the sender.
SenderRan ==
    /\ reply'.seq # reply.seq
    /\ reply'.op \in {"send_meta_whatsapp_otp",
                      "send_whatsapp_marketing_template", "send_meta_otp",
                      "send_marketing_template", "send_whatsapp_otp"}
    /\ reply'.sent.result # {}

\* C26: when the application has no entry in APP_CONFIG, or its entry has no
\* token or no phone id, the two senders return the dict that reports the
\* error and make no request to the provider.
C26_NoRequestWithoutCredentials ==
    [][(SenderRan /\ (~reply'.config.known \/ ~reply'.config.token
                         \/ ~reply'.config.phone_id))
          => /\ reply'.sent.requests = 0
             /\ reply'.sent.result = {"status", "message"}]_vars

\* send_whatsapp_marketing_template was called for a name without an entry
\* and returned the error dict.
C26_Witness ==
    /\ reply.op = "send_whatsapp_marketing_template"
    /\ ~reply.config.known
    /\ reply.sent.result = {"status", "message"}
    /\ reply.sent.requests = 0

\* The step just taken was a request to one of the three send endpoints.
EndpointAnswered ==
    /\ reply'.seq # reply.seq
    /\ reply'.op \in {"send_meta_otp", "send_marketing_template",
                      "send_whatsapp_otp"}

\* C27: a send endpoint asked for an application that has an entry without
\* a token or without a phone id answers with an error status and never with
\* a success response.
C27_ConfigurationErrorReported ==
    [][(EndpointAnswered /\ reply'.config.known
            /\ (~reply'.config.token \/ ~reply'.config.phone_id)
            /\ reply'.status # 401)
          => reply'.status # HTTP_OK /\ reply'.detail = "error"]_vars

\* The digits of a text, from the last character to the first.
RECURSIVE DigitsOf(_)
DigitsOf(s) ==
    IF s = <<>> THEN <<>>
    ELSE LET front == DigitsOf(SubSeq(s, 1, Len(s) - 1))
         IN IF s[Len(s)] \in Digits THEN Append(front, s[Len(s)]) ELSE front

\* The step just taken made a request to the Meta provider.
MetaRequest ==
    /\ SenderRan
    /\ reply'.sent.requests > 0

\* C28: the destination of a request to the provider is the digits of the
\* mobile given, with 91 before them if and only if they are ten.
C28_PhoneNormalization ==
    [][MetaRequest =>
          LET digits == DigitsOf(reply'.phone)
          IN /\ Len(digits) = 10 => reply'.sent.to = <<"9", "1">> \o digits
             /\ Len(digits) # 10 => reply'.sent.to = digits]_vars

\* A request went out for a number of eleven digits, unprefixed.
C28_Witness ==
    /\ reply.op \in {"send_meta_otp", "send_marketing_template"}
    /\ reply.sent.requests = 1
    /\ reply.phone = <<"0">> \o Ten
    /\ reply.sent.to = <<"0">> \o Ten

\* C29: a call of one of the three senders, on its own or from an endpoint,
\* makes at most one request to the provider, also when the request fails.
C29_AtMostOneRequest ==
    [][reply'.seq # reply.seq => reply'.sent.requests \in {0, 1}]_vars

\* send_periskope_message made its one request and returned False.
C29_Witness ==
    /\ reply.op = "send_periskope_message"
    /\ reply.detail = "False"
    /\ reply.sent.requests = 1

-----------------------------------------------------------------------------
(* Claims about the OTP store, checked under SpecOtp *)

\* The step just taken was a verify_otp request carrying a phone and a code.
Verified ==
    /\ reply'.seq # reply.seq
    /\ reply'.op = "verify_otp"
    /\ reply'.detail # "Phone and OTP required"

\* The code was found valid (the handler passed its last check).
Valid(r) == r.detail \in {"access_token", "Service temporarily unavailable"}

Live(phone) == phone \in DOMAIN otp_store /\ now <= otp_store[phone].expires

\* C8: a code issued for a phone is accepted at most once, in whatever
\* order the verify_otp requests that follow the issue are run, and once it
\* has been accepted the session is gone, so the same code is rejected.
C8_AcceptedAtMostOnce ==
    \A p \in Phones :
        /\ accepted[p] <= 1
        /\ accepted[p] = 1 => p \notin DOMAIN otp_store

C8_Witness ==
    /\ reply.op = "verify_otp"
    /\ reply.detail = "OTP not requested or expired"
    /\ reply.matched = FALSE
    /\ reply.phone \in Phones
    /\ accepted[reply.phone] = 1

\* C9: while the session of a phone has not expired, a verify_otp with a
\* wrong code fails with "Invalid OTP" and leaves the OTP store unchanged,
\* and a verify_otp with the stored code is found valid; this holds in every
\* reachable state, so after any number of wrong attempts.
C9_WrongCodeKeepsSession ==
    [][Verified /\ Live(reply'.phone)
          => IF reply'.matched
             THEN Valid(reply')
             ELSE reply'.detail = "Invalid OTP" /\ otp_store' = otp_store]_vars

C9_Witness ==
    /\ reply.op = "verify_otp"
    /\ reply.detail = "Invalid OTP"
    /\ reply.phone \in DOMAIN otp_store
    /\ now <= otp_store[reply.phone].expires
    /\ now > 0

\* C10: a verify_otp made after the expiry time of the session fails with
\* "OTP expired" whether or not the code is the stored one, and deletes the
\* session; a verify_otp for a phone without a session fails with "OTP not
\* requested or expired".
C10_ExpiredSession ==
    [][Verified
          => /\ (reply'.phone \in DOMAIN otp_store
                    /\ now > otp_store[reply'.phone].expires)
                 => /\ reply'.detail = "OTP expired"
                    /\ reply'.phone \notin DOMAIN otp_store'
             /\ reply'.phone \notin DOMAIN otp_store
                 => /\ reply'.detail = "OTP not requested or expired"
                    /\ otp_store' = otp_store]_vars

C10_Witness ==
    /\ reply.op = "verify_otp"
    /\ reply.detail = "OTP expired"
    /\ reply.matched
    /\ reply.phone \notin DOMAIN otp_store

\* The step just taken was a request that issued a code: a login_otp with a
\* phone, or a send_whatsapp_otp_endpoint for a supported app.
Issued ==
    /\ reply'.seq # reply.seq
    /\ \/ reply'.op = "login_otp" /\ reply'.status = HTTP_OK
       \/ reply'.op = "send_whatsapp_otp" /\ reply'.status # 400

\* C11: a phone has at most one session: issuing a code replaces the session
\* of the phone, whatever it held, by one holding the new code and a new
\* expiry time, so that right after the issue a verify_otp for the phone is
\* found valid with the new code and gets "Invalid OTP", the session kept,
\* with any other code, the code of the replaced session included.
C11_OneSessionPerPhone ==
    [][Issued
          => /\ otp_store'[reply'.phone] =
                    [otp |-> reply'.otp, expires |-> now + OTP_TTL]
             /\ \A code \in Codes, es_ok \in BOOLEAN :
                   \E v \in {verify_otp(otp_store', users', now', reply'.phone,
                                        code, es_ok)} :
                      IF code = reply'.otp
                      THEN v.valid
                      ELSE /\ v.detail = "Invalid OTP"
                           /\ v.otp_store = otp_store']_vars

C11_Witness ==
    /\ reply.op \in {"login_otp", "send_whatsapp_otp"}
    /\ reply.replaced \in Codes
    /\ reply.replaced # reply.otp
    /\ reply.phone \in DOMAIN otp_store
    /\ otp_store[reply.phone].otp = reply.otp

\* C12: a verify_otp for a phone without a session never succeeds and leaves
\* the OTP store and the users as they were; when the request carries a phone
\* and a code its error is "OTP not requested or expired".
C12_NoSession ==
    [][(/\ reply'.seq # reply.seq
        /\ reply'.op = "verify_otp"
        /\ reply'.phone \notin DOMAIN otp_store)
          => /\ ~Valid(reply')
             /\ reply'.status = 400
             /\ otp_store' = otp_store
             /\ users' = users
             /\ accepted' = accepted
             /\ Verified => reply'.detail = "OTP not requested or expired"]_vars

C12_Witness ==
    /\ reply.op = "verify_otp"
    /\ reply.detail = "OTP not requested or expired"
    /\ reply.phone \in Phones
    /\ accepted[reply.phone] = 0
    /\ otp_store # EmptyMap

\* C13: a request that issues or verifies a code for one phone leaves the
\* session of every other phone as it was: present with the same code and
\* expiry time, or absent.
C13_OtherPhonesUnchanged ==
    [][reply'.seq # reply.seq
          => \A q \in (DOMAIN otp_store \cup DOMAIN otp_store') \ {reply'.phone} :
                /\ q \in DOMAIN otp_store
                /\ q \in DOMAIN otp_store'
                /\ otp_store'[q] = otp_store[q]]_vars

C13_Witness ==
    /\ reply.op = "verify_otp"
    /\ reply.detail = "OTP expired"
    /\ \E q \in DOMAIN otp_store : q # reply.phone /\ now > otp_store[q].expires

\* C34: send_whatsapp_otp_endpoint for an application name that APP_CONFIG
\* does not have answers with the error of an unsupported application,
\* leaves the OTP store as it was and makes no request to the provider.
C34_UnsupportedApp ==
    [][(/\ reply'.seq # reply.seq
        /\ reply'.op = "send_whatsapp_otp"
        /\ ~reply'.config.known)
          => /\ reply'.status = 400
             /\ reply'.detail = "error"
             /\ otp_store' = otp_store
             /\ reply'.sent.requests = 0]_vars

\* The endpoint has refused an unknown application for a phone that holds a
\* session.
C34_Witness ==
    /\ reply.op = "send_whatsapp_otp"
    /\ ~reply.config.known
    /\ reply.status = 400
    /\ reply.sent.requests = 0
    /\ reply.phone \in DOMAIN otp_store

\* C36: a verify_otp that carries the code of a live session and finds the
\* users index failing (the answer of status 500) answers with the error
\* "Service temporarily unavailable", issues no token, registers no user and
\* has deleted the session of the phone, so that the same code presented
\* again finds no session.
C36_SessionConsumedBeforeLookup ==
    [][(/\ Verified
        /\ reply'.matched
        /\ now <= otp_store[reply'.phone].expires
        /\ reply'.status = 500)
          => /\ reply'.detail = "Service temporarily unavailable"
             /\ users' = users
             /\ reply'.phone \notin DOMAIN otp_store'
             /\ verify_otp(otp_store', users', now', reply'.phone,
                           otp_store[reply'.phone].otp, TRUE).detail
                    = "OTP not requested or expired"]_vars

\* The users index failed for a phone that is no user yet after the code
\* matched: the session is gone.
C36_Witness ==
    /\ reply.op = "verify_otp"
    /\ reply.matched
    /\ reply.status = 500
    /\ reply.phone \notin DOMAIN otp_store
    /\ reply.phone \notin users

\* The request did not deliver the code: the sender made no request to the
\* provider, or the request it made failed.
NotDelivered(r) ==
    \/ r.sent.requests = 0
    \/ "error" \in r.sent.result
    \/ r.detail = "OTP failed to send (Check Server Logs for Code)"

\* C37: a login_otp or send_whatsapp_otp_endpoint that issued a code for a
\* phone and did not deliver it leaves a session of the phone that holds the
\* code, and a verify_otp with the code right after succeeds.
C37_SessionStoredBeforeDelivery ==
    [][(Issued /\ NotDelivered(reply'))
          => /\ reply'.phone \in DOMAIN otp_store'
             /\ otp_store'[reply'.phone].otp = reply'.otp
             /\ verify_otp(otp_store', users', now', reply'.phone,
                           reply'.otp, TRUE).status = HTTP_OK]_vars

\* login_otp without the credentials of the provider has made no request and
\* left the session of the code it generated.
C37_Witness ==
    /\ reply.op = "login_otp"
    /\ reply.sent.requests = 0
    /\ reply.detail = "OTP failed to send (Check Server Logs for Code)"
    /\ reply.phone \in DOMAIN otp_store
    /\ otp_store[reply.phone].otp = reply.otp

\* C38: the response of a login_otp or send_whatsapp_otp_endpoint that
\* issued a code is the same whatever the code is: its body carries no code.
C38_ResponseWithoutCode ==
    [][Issued => reply'.body_otp = None]_vars

-----------------------------------------------------------------------------
(* Claims about process_webhook_message, checked under SpecWebhook *)

\* The step just taken was a run of process_webhook_message on the input of
\* the run before it, and the input carries a message_id.
Redelivered ==
    /\ job'.seq # job.seq
    /\ job'.payload.event # "none"
    /\ job'.payload = job.payload
    /\ "message_id" \in DOMAIN job'.payload.data

MessageIdOf(j) == j.payload.data["message_id"]

JobRun == job'.seq # job.seq /\ job'.payload.event # "none"

\* What the last call of get_chat_name for chat_id returned in a run.
RECURSIVE NameOf(_, _)
NameOf(calls, chat_id) ==
    IF calls = <<>> THEN chat_id
    ELSE IF calls[Len(calls)][1] = chat_id THEN calls[Len(calls)][2]
    ELSE NameOf(SubSeq(calls, 1, Len(calls) - 1), chat_id)

\* The body s from position i on, with every token "@" and digits d replaced
\* by the name returned for d when that name is not d.
RECURSIVE Substituted(_, _, _)
Substituted(s, i, calls) ==
    IF i > Len(s) THEN <<>>
    ELSE IF s[i] = "@" /\ DigitsEnd(s, i + 1) > i + 1
    THEN LET d == SubSeq(s, i + 1, DigitsEnd(s, i + 1) - 1)
         IN (IF NameOf(calls, d) # d THEN NameOf(calls, d) ELSE <<"@">> \o d)
                \o Substituted(s, DigitsEnd(s, i + 1), calls)
    ELSE <<s[i]>> \o Substituted(s, i + 1, calls)

\* C14: the body stored by process_webhook_message is the body of the event
\* with every mention "@d" replaced by the name get_chat_name(d) returned
\* when that name differs from d, and left as it is when the name is d.
C14_MentionSubstitution ==
    [][(/\ JobRun
        /\ job'.wrote
        /\ "body" \in DOMAIN job'.payload.data
        /\ IsStr(job'.payload.data["body"]))
          => job'.doc["body"] =
                 Substituted(job'.payload.data["body"], 1, job'.calls)]_vars

\* The string t occurs in the string s.
Occurs(s, t) == \E i \in 1..Len(s) : StartsWith(SubSeq(s, i, Len(s)), t)

\* C32: every mention "@d" of the event's body for which get_chat_name
\* returned no name other than d is still in the body that
\* process_webhook_message stores, whatever the other mentions of the body.
C32_UnresolvedMentionKept ==
    [][(/\ JobRun
        /\ job'.wrote
        /\ "body" \in DOMAIN job'.payload.data
        /\ IsStr(job'.payload.data["body"]))
          => LET mentions == findall_mentions(job'.payload.data["body"], 1)
             IN \A i \in 1..Len(mentions) :
                    (\/ NameOf(job'.calls, mentions[i]) = mentions[i]
                     \/ ~Truthy(NameOf(job'.calls, mentions[i])))
                       => Occurs(job'.doc["body"],
                                 <<"@">> \o mentions[i])]_vars

\* The event of a run names a sender that is not the account itself.
HasSender(data) ==
    "sender_phone" \in DOMAIN data /\ ~Get(data, "from_me", FALSE)

Mentions(data) ==
    IF "body" \in DOMAIN data /\ IsStr(data["body"])
    THEN Len(findall_mentions(data["body"], 1)) ELSE 0

\* C15: the stored document has sender_name exactly when the event has
\* sender_phone and is not flagged from_me, and then it is what
\* get_chat_name returned for sender_phone; for an event flagged from_me the
\* run makes no get_chat_name call besides those for the chat and the
\* mentions.
C15_SenderName ==
    [][JobRun /\ job'.wrote
          => LET data == job'.payload.data
                 chat == IF "chat_id" \in DOMAIN data THEN 1 ELSE 0
             IN IF HasSender(data)
                THEN /\ "sender_name" \in DOMAIN job'.doc
                     /\ job'.calls[chat + 1][1] = data["sender_phone"]
                     /\ job'.doc["sender_name"] = job'.calls[chat + 1][2]
                     /\ Len(job'.calls) = chat + 1 + Mentions(data)
                ELSE /\ "sender_name" \notin DOMAIN job'.doc
                     /\ Len(job'.calls) = chat + Mentions(data)]_vars

C15_Witness ==
    /\ job.wrote
    /\ "sender_phone" \in DOMAIN job.payload.data
    /\ Get(job.payload.data, "from_me", FALSE)
    /\ "sender_name" \notin DOMAIN job.doc
    /\ "chat_name" \in DOMAIN job.doc
    /\ Len(job.calls) = 1

\* C16: every run of process_webhook_message reaches the write of the
\* document, whatever the chat_id, sender_phone and body of the event are.
C16_WriteAlwaysAttempted ==
    [][JobRun => job'.wrote]_vars

KeyOf(data) ==
    IF Truthy(Get(data, "message_id", None)) THEN data["message_id"]
    ELSE IF Truthy(Get(data, "id", None)) /\ data["id"] # DictValue
    THEN data["id"]
    ELSE None

-----------------------------------------------------------------------------
(* Claims about the webhook endpoint, checked under SpecIngest *)

\* The step just taken was a request to the webhook endpoint.
Posted == ack'.seq # ack.seq

\* The event of a request, and whether it asks for a job: ack.request has
\* "empty" as data when the request carried an object without fields.
EventOf(request) ==
    IF request.event # "" THEN request.event ELSE request.event_type

Schedulable(request) ==
    EventOf(request) \in RecognizedEvents /\ request.data = "object"

C19_AckBeforeEnrichment ==
    [][/\ Posted
          => /\ cache' = cache
             /\ msg_index' = msg_index
             /\ assigned' = assigned
             /\ job' = job
       /\ JobRun
          => /\ tasks # <<>>
             /\ job'.payload = Head(tasks)
             /\ tasks' = Tail(tasks)]_vars

C19_Witness ==
    /\ ack.scheduled
    /\ ack.status = HTTP_OK
    /\ tasks # <<>>
    /\ job = NoJob
    /\ msg_index = EmptyMap
    /\ cache = EmptyMap

====
